---- MODULE Spec2Model ----
(***************************************************************************)
(* A model of redjubjub: RedJubjub signatures, batch verification and the  *)
(* FROST threshold layer.                                                  *)
(*                                                                         *)
(* The Jubjub group (order 8 * l, l prime) is modelled by the cyclic group *)
(* Z_(Cofactor * L) written additively, the scalar field by Z_L for a      *)
(* small prime L.  BLAKE2b-512 is modelled by a position-sensitive rolling *)
(* digest, and the 32-byte canonical point encoding by an injective map.   *)
(* A random number generator is modelled by a seeded stream of scalars.    *)
(***************************************************************************)
EXTENDS Integers, Sequences, FiniteSets, TLC

(***************************************************************************)
(* Bounds of the model.                                                    *)
(***************************************************************************)
\* Index into FieldPrimes of the modulus of the scalar field.
FieldIdx == 1
\* Largest number of signers / shares a dealer is asked for.
MaxSigners == 3
\* Seeds of the random number generator streams: 0..MaxSeed.
MaxSeed == 4

\* The SecretShares of the signer model, and the sessions begun on them.
MaxShares == 2

MaxSessions == 3

\* The longest vector of tweaks of a tweaked signature case.
MaxTweaks == 4

\* The most items queued in a batch.
MaxBatch == 2

\* The highest version number of a message header.
MaxVersion == 1

\* By how many bytes the longest message exceeds the maximum length.
MaxOverLen == 1

\* The most commitments a signing package of the coordinator lists, and the
\* most signature shares the coordinator hands to aggregate.
MaxListed == 2

\* The most calls of sign a participant makes.
MaxCalls == 2

\* for msg in &[b"AAA", b"BBB", b"CCC"]: the signing requests of a run.
NumRequests == 3

FieldPrimes == <<5, 7, 11, 13>>

\* The order of the prime-order subgroup and of the scalar field.
L == FieldPrimes[FieldIdx]

\* h_G, the cofactor of the group.
Cofactor == 8

\* Length of the encoding of a point or of a scalar, [u8; 32].
EncLen == 32

GroupOrder == Cofactor * L

Scalars == 0..(L - 1)

Points == 0..(GroupOrder - 1)

None == "None"

\* Option / CtOption values.
Some(v) == [some |-> TRUE, val |-> v]

Nothing == [some |-> FALSE]

(***************************************************************************)
(* Scalar field arithmetic (jubjub::Fr).                                   *)
(***************************************************************************)
SAdd(a, b) == (a + b) % L

SSub(a, b) == (a + L - b) % L

SMul(a, b) == (a * b) % L

\* Scalar::invert: the inverse of a non-zero scalar, None for zero.
SInvert(a) ==
    IF a % L = 0 THEN Nothing ELSE Some(CHOOSE y \in Scalars : (a * y) % L = 1)

\* Scalar::from(u64)
ScalarFromU64(x) == x % L

\* Scalar::from_bytes_wide: reduction of a wide digest modulo L.
from_bytes_wide(digest) == digest % L

(***************************************************************************)
(* Group arithmetic (jubjub::ExtendedPoint).                               *)
(***************************************************************************)
Identity == 0

PAdd(p, q) == (p + q) % GroupOrder

PNeg(p) == (GroupOrder - p) % GroupOrder

PSub(p, q) == PAdd(p, PNeg(q))

PDouble(p) == PAdd(p, p)

\* point * scalar
PMul(p, s) == (p * s) % GroupOrder

\* is_small_order: [h_G] p is the identity.
is_small_order(p) == PMul(p, Cofactor) = Identity

\* The two basepoints: generators of the subgroup of order L.
SpendAuthBasepoint == Cofactor % GroupOrder

BindingBasepoint == (2 * Cofactor) % GroupOrder

SigTypes == {"SpendAuth", "Binding"}

basepoint(T) == IF T = "SpendAuth" THEN SpendAuthBasepoint ELSE BindingBasepoint

(***************************************************************************)
(* Encodings.                                                              *)
(***************************************************************************)
Bytes == 0..255

\* Scalar::to_bytes: the canonical little-endian encoding.
ScalarToBytes(s) == [i \in 1..EncLen |-> IF i = 1 THEN s ELSE 0]

\* Scalar::from_bytes: None unless the encoding is canonical.
ScalarFromBytes(b) ==
    IF b[1] < L /\ \A i \in 2..EncLen : b[i] = 0 THEN Some(b[1]) ELSE Nothing

\* AffinePoint::to_bytes: the canonical encoding of a point.
PointToBytes(p) == [i \in 1..EncLen |-> (p * i + 28 * (i - 1) + 1) % 256]

PointBytesTable == [p \in Points |-> PointToBytes(p)]

\* AffinePoint::from_bytes: None unless the bytes are the canonical
\* encoding of a point.
PointFromBytes(b) ==
    IF \E p \in Points : PointBytesTable[p] = b
    THEN Some(CHOOSE p \in Points : PointBytesTable[p] = b)
    ELSE Nothing

\* Bit operations on bytes.
ByteBit(x, i) == (x \div 2^i) % 2

ByteOf(bits) ==
    bits[0] + 2 * bits[1] + 4 * bits[2] + 8 * bits[3] + 16 * bits[4] + 32 * bits[5]
      + 64 * bits[6] + 128 * bits[7]

ByteAnd(a, b) == ByteOf([i \in 0..7 |-> ByteBit(a, i) * ByteBit(b, i)])

ByteOr(a, b) ==
    ByteOf([i \in 0..7 |-> IF ByteBit(a, i) + ByteBit(b, i) > 0 THEN 1 ELSE 0])

ByteXor(a, b) == ByteOf([i \in 0..7 |-> (ByteBit(a, i) + ByteBit(b, i)) % 2])

\* u32::to_be_bytes
U32ToBeBytes(x) ==
    << (x \div 2^24) % 256, (x \div 2^16) % 256, (x \div 2^8) % 256, x % 256 >>

(***************************************************************************)
(* H*, the hash to a scalar.                                               *)
(***************************************************************************)
DigestMod == 2^16 - 15

\* Blake2b512::update over data[lo..hi], one byte after the other.
RECURSIVE Absorb(_, _, _, _)
Absorb(state, data, lo, hi) ==
    IF lo > hi THEN state
    ELSE IF lo = hi THEN (state * 33 + data[lo] + 1) % DigestMod
    ELSE LET mid == (lo + hi) \div 2
             left == Absorb(state, data, lo, mid)
         IN IF left >= 0 THEN Absorb(left, data, mid + 1, hi) ELSE left

\* b"Zcash_RedJubjubH"
H_STAR_PERSONALIZATION ==
    <<90, 99, 97, 115, 104, 95, 82, 101, 100, 74, 117, 98, 106, 117, 98, 72>>

\* HStar::default
HStarDefault == Absorb(7, H_STAR_PERSONALIZATION, 1, Len(H_STAR_PERSONALIZATION))

\* HStar::update
HStarUpdate(state, data) == Absorb(state, data, 1, Len(data))

\* HStar::finalize
HStarFinalize(state) == from_bytes_wide(state)

(***************************************************************************)
(* The random number generator: a stream of scalars fixed by its seed.     *)
(***************************************************************************)
Seeds == 0..MaxSeed

\* The k-th scalar (k = 0, 1, ...) that Scalar::from_bytes_wide makes of the
\* stream's output.
Draw(seed, k) == (seed * (k + 1) + k * k) % L

Ok(v) == [ok |-> TRUE, val |-> v]

Err(e) == [ok |-> FALSE, err |-> e]

(***************************************************************************)
(* FROST: dealer key generation.                                           *)
(***************************************************************************)
\* VerificationKey::from(&scalar) for SpendAuth.
VerificationKeyFrom(T, sk) ==
    LET point == PMul(basepoint(T), sk)
    IN [bytes |-> PointBytesTable[point], point |-> point]

\* Horner evaluation of the polynomial at scalar_index: the loop over
\* (0..numcoeffs).rev(); i is the next coefficient to add.
RECURSIVE HornerLoop(_, _, _, _)
HornerLoop(value, coefficients, scalar_index, i) ==
    IF i = 0 THEN value
    ELSE HornerLoop(SMul(SAdd(value, coefficients[i]), scalar_index),
                    coefficients, scalar_index, i - 1)

\* A share value with the loop run once too often.
ShareValue_extra_round(secret, coefficients, index, numcoeffs) ==
    SAdd(SMul(HornerLoop(0, coefficients, ScalarFromU64(index), numcoeffs),
              ScalarFromU64(index)), secret)

\* The value of the share of index: the body of the loop over 1..numshares + 1.
ShareValue(secret, coefficients, index, numcoeffs) ==
    SAdd(HornerLoop(0, coefficients, ScalarFromU64(index), numcoeffs), secret)

\* The FrostError whose message is the text of an error of frost.rs.
FrostErrorOf(text) ==
    IF text = "Share is invalid." THEN "InvalidShare"
    ELSE IF text = "Threshold cannot be 0" THEN "ZeroThreshold"
    ELSE IF text = "Number of shares cannot be 0" THEN "ZeroShares"
    ELSE IF text = "Threshold cannot exceed numshares" THEN "ThresholdExceedShares"
    ELSE IF text = "Invalid signature share" THEN "InvalidSignatureShare"
    ELSE IF text = "Duplicate shares provided" THEN "DuplicateShares"
    ELSE IF text = "No matching signing commitment for signer"
         THEN "NoMatchSigningCommitment"
    ELSE "none"

\* generate_shares that looks at numshares before threshold.
generate_shares_shares_first(secret, numshares, threshold, coefficients) ==
    IF numshares < 1 THEN Err("Number of shares cannot be 0")
    ELSE IF threshold < 1 THEN Err("Threshold cannot be 0")
    ELSE IF threshold > numshares THEN Err("Threshold cannot exceed numshares")
    ELSE
      LET numcoeffs == threshold - 1
          commitment == [k \in 1..threshold |->
                           IF k = 1 THEN PMul(SpendAuthBasepoint, secret)
                           ELSE PMul(SpendAuthBasepoint, coefficients[k - 1])]
      IN Ok([index \in 1..numshares |->
               [receiver_index |-> index,
                value |-> ShareValue(secret, coefficients, index, numcoeffs),
                commitment |-> commitment]])

\* generate_shares; coefficients are the threshold - 1 scalars drawn from rng.
generate_shares(secret, numshares, threshold, coefficients) ==
    IF threshold < 1 THEN Err("Threshold cannot be 0")
    ELSE IF numshares < 1 THEN Err("Number of shares cannot be 0")
    ELSE IF threshold > numshares THEN Err("Threshold cannot exceed numshares")
    ELSE
      LET numcoeffs == threshold - 1
          commitment == [k \in 1..threshold |->
                           IF k = 1 THEN PMul(SpendAuthBasepoint, secret)
                           ELSE PMul(SpendAuthBasepoint, coefficients[k - 1])]
      IN Ok([index \in 1..numshares |->
               [receiver_index |-> index,
                value |-> ShareValue(secret, coefficients, index, numcoeffs),
                commitment |-> commitment]])

\* The fold of verify_share over the commitments from the k-th on.
RECURSIVE VerifyShareFold(_, _, _, _, _)
VerifyShareFold(x_to_the_i, sum_so_far, x, commitment, k) ==
    IF k > Len(commitment) THEN sum_so_far
    ELSE VerifyShareFold(SMul(x_to_the_i, x),
                         PAdd(sum_so_far, PMul(commitment[k], x_to_the_i)),
                         x, commitment, k + 1)

\* verify_share
verify_share(share) ==
    LET f_result == PMul(SpendAuthBasepoint, share.value)
        x == ScalarFromU64(share.receiver_index)
        result == VerifyShareFold(1, Identity, x, share.commitment, 1)
    IN IF ~(f_result = result) THEN Err("Share is invalid.") ELSE Ok("unit")

\* The Lagrange numerator and denominator with shares[i] itself not skipped
\* in the numerator.
RECURSIVE ReconstructNumDen_no_skip(_, _, _, _, _)
\* KeyPackage::try_from without the verification of the share.
KeyPackageTryFrom_unverified(sharepackage) ==
    Ok([index |-> sharepackage.index,
        secret_share |-> sharepackage.share.value,
        public |-> sharepackage.public,
        group_public |-> sharepackage.group_public])

\* impl TryFrom<SharePackage> for KeyPackage
KeyPackageTryFrom(sharepackage) ==
    LET verified == verify_share(sharepackage.share)
    IN IF ~verified.ok THEN verified
       ELSE Ok([index |-> sharepackage.index,
                secret_share |-> sharepackage.share.value,
                public |-> sharepackage.public,
                group_public |-> sharepackage.group_public])

ReconstructNumDen_no_skip(num, den, shares, i, j) ==
    IF j > Len(shares) THEN <<num, den>>
    ELSE ReconstructNumDen_no_skip(
           SMul(num, ScalarFromU64(shares[j].receiver_index)),
           IF j = i THEN den
           ELSE SMul(den, SSub(ScalarFromU64(shares[j].receiver_index),
                               ScalarFromU64(shares[i].receiver_index))),
           shares, i, j + 1)

\* The numerator and denominator of the Lagrange coefficient of shares[i]:
\* the inner loop of reconstruct_secret over j.
RECURSIVE ReconstructNumDen(_, _, _, _, _)
ReconstructNumDen(num, den, shares, i, j) ==
    IF j > Len(shares) THEN <<num, den>>
    ELSE IF j = i THEN ReconstructNumDen(num, den, shares, i, j + 1)
    ELSE ReconstructNumDen(
           SMul(num, ScalarFromU64(shares[j].receiver_index)),
           SMul(den, SSub(ScalarFromU64(shares[j].receiver_index),
                          ScalarFromU64(shares[i].receiver_index))),
           shares, i, j + 1)

\* The last loop of reconstruct_secret: the sum of lagrange_coeffs[i] * value.
RECURSIVE ReconstructSum(_, _, _, _)
ReconstructSum(secret, lagrange_coeffs, shares, i) ==
    IF i > Len(shares) THEN secret
    ELSE ReconstructSum(SAdd(secret, SMul(lagrange_coeffs[i], shares[i].value)),
                        lagrange_coeffs, shares, i + 1)

\* reconstruct_secret
reconstruct_secret(shares) ==
    LET numshares == Len(shares)
        nd == [i \in 1..numshares |-> ReconstructNumDen(1, 1, shares, i, 1)]
    IN IF numshares < 1 THEN Err("No shares provided")
       ELSE IF \E i \in 1..numshares : nd[i][2] = 0
            THEN Err("Duplicate shares provided")
       ELSE LET lagrange_coeffs ==
                    [i \in 1..numshares |-> SMul(nd[i][1], SInvert(nd[i][2]).val)]
            IN Ok(ReconstructSum(0, lagrange_coeffs, shares, 1))

(***************************************************************************)
(* RedDSA signatures: signing and single verification.                     *)
(***************************************************************************)
\* Signature<T> from its 64 bytes and back: r_bytes is the first half,
\* s_bytes the second.
SignatureFromBytes(bytes) ==
    [r_bytes |-> [i \in 1..EncLen |-> bytes[i]],
     s_bytes |-> [i \in 1..EncLen |-> bytes[EncLen + i]]]

SignatureToBytes(sig) ==
    [i \in 1..(2 * EncLen) |->
       IF i <= EncLen THEN sig.r_bytes[i] ELSE sig.s_bytes[i - EncLen]]

\* The challenge c = H*(R_bytes || vk_bytes || msg).
Challenge(r_bytes, vk_bytes, msg) ==
    HStarFinalize(HStarUpdate(HStarUpdate(HStarUpdate(HStarDefault, r_bytes),
                                          vk_bytes), msg))

\* Verification that forgets the challenge term c * vk.
VerifyPoint_no_challenge(T, vk_point, R, s, c) ==
    PAdd(PMul(basepoint(T), SSub(0, s)), R)

\* The point -s * P + R + c * vk whose order verification tests.
VerifyPoint(T, vk_point, R, s, c) ==
    PAdd(PAdd(PMul(basepoint(T), SSub(0, s)), R), PMul(vk_point, c))

\* VerificationKey::verify
Verify(T, vk, msg, sig) ==
    LET R == PointFromBytes(sig.r_bytes)
        s == ScalarFromBytes(sig.s_bytes)
    IN IF ~R.some \/ ~s.some THEN Err("InvalidSignature")
       ELSE LET c == Challenge(sig.r_bytes, vk.bytes, msg)
            IN IF is_small_order(VerifyPoint(T, vk.point, R.val, s.val, c))
               THEN Ok("unit")
               ELSE Err("InvalidSignature")

\* The 80 bytes Sign draws from its rng.
NonceSeedBytes(seed) == [i \in 1..80 |-> (seed * i + i * i + 3) % 256]

\* Sign with s = r - c * sk.
SignScalar_minus(r, c, sk) == SSub(r, SMul(c, sk))

\* The s of a signature: r + c * sk.
SignScalar(r, c, sk) == SAdd(r, SMul(c, sk))

\* SigningKey::sign
SigningKeySign(T, sk, msg, seed) ==
    LET vk == VerificationKeyFrom(T, sk)
        r == HStarFinalize(HStarUpdate(HStarUpdate(HStarUpdate(HStarDefault,
                                                               NonceSeedBytes(seed)),
                                                   vk.bytes), msg))
        r_bytes == PointBytesTable[PMul(basepoint(T), r)]
        c == Challenge(r_bytes, vk.bytes, msg)
    IN [r_bytes |-> r_bytes, s_bytes |-> ScalarToBytes(SignScalar(r, c, sk))]

\* VerificationKey::try_from(VerificationKeyBytes): the bytes must be the
\* canonical encoding of a point, and the point must not be of small order.
VerificationKeyTryFrom(bytes) ==
    LET maybe_point == PointFromBytes(bytes)
    IN IF ~maybe_point.some THEN Err("MalformedVerificationKey")
       ELSE IF is_small_order(maybe_point.val) THEN Err("MalformedVerificationKey")
       ELSE Ok([bytes |-> bytes, point |-> maybe_point.val])

\* SigningKey::randomize
SigningKeyRandomize(sk, randomizer) == SAdd(sk, randomizer)

\* A randomization of the verification key by the binding basepoint.
VerificationKeyRandomize_binding(vk, randomizer) ==
    LET point == PAdd(vk.point, PMul(BindingBasepoint, randomizer))
    IN [bytes |-> PointBytesTable[point], point |-> point]

\* VerificationKey::randomize
VerificationKeyRandomize(vk, randomizer) ==
    LET point == PAdd(vk.point, PMul(SpendAuthBasepoint, randomizer))
    IN [bytes |-> PointBytesTable[point], point |-> point]

\* SignatureCase::check: the signature and the key bytes make a round trip
\* through raw bytes, the key is decoded and the signature verified.
SignatureCaseVerified(T, case) ==
    LET sig == SignatureFromBytes(SignatureToBytes(case.sig))
        pk_bytes == [i \in 1..EncLen |-> case.pk_bytes[i]]
        pk == VerificationKeyTryFrom(pk_bytes)
    IN IF pk.ok THEN Verify(T, pk.val, case.msg, sig) ELSE pk

SignatureCaseCheck(T, case) == case.is_valid = SignatureCaseVerified(T, case).ok

\* SignatureCase::apply_tweak; bytes[k] of the code is bytes[k + 1] here.
apply_tweak(case, tweak) ==
    IF tweak = "None" THEN case
    ELSE IF tweak = "ChangeMessage"
         THEN [case EXCEPT !.msg = Append(@, 90), !.is_valid = FALSE]
    ELSE LET bytes == case.pk_bytes
             j == ByteAnd(bytes[3], 31)
             bytes2 == ByteOr(ByteXor(bytes[3], 35), 153)
             tweaked == [bytes EXCEPT ![3] = bytes2]
         IN [case EXCEPT !.pk_bytes = [tweaked EXCEPT ![j + 1] = ByteXor(@, tweaked[3])],
                         !.is_valid = FALSE]

(***************************************************************************)
(* FROST: signing.                                                         *)
(***************************************************************************)
\* keygen_with_dealer that hands the participants' share packages out
\* starting from index 0.
keygen_with_dealer_from_zero(num_signers, threshold, seed) ==
    LET secret == Draw(seed, 0)
        group_public == VerificationKeyFrom("SpendAuth", secret)
        coefficients == [k \in 1..(IF threshold < 1 THEN 0 ELSE threshold - 1) |->
                           Draw(seed, k)]
        shares == generate_shares(secret, num_signers, threshold, coefficients)
    IN IF ~shares.ok THEN shares
       ELSE Ok([sharepackages |->
                  [i \in 1..num_signers |->
                     [index |-> shares.val[i].receiver_index - 1,
                      share |-> shares.val[i],
                      public |-> PMul(SpendAuthBasepoint, shares.val[i].value),
                      group_public |-> group_public]],
                pubkeys |->
                  [signer_pubkeys |->
                     [i \in {shares.val[k].receiver_index : k \in 1..num_signers} |->
                        PMul(SpendAuthBasepoint,
                             shares.val[CHOOSE k \in 1..num_signers :
                                          shares.val[k].receiver_index = i].value)],
                   group_public |-> group_public]])

\* keygen_with_dealer; the rng is the stream of seed, read from position 0.
keygen_with_dealer(num_signers, threshold, seed) ==
    LET secret == Draw(seed, 0)
        group_public == VerificationKeyFrom("SpendAuth", secret)
        coefficients == [k \in 1..(IF threshold < 1 THEN 0 ELSE threshold - 1) |->
                           Draw(seed, k)]
        shares == generate_shares(secret, num_signers, threshold, coefficients)
    IN IF ~shares.ok THEN shares
       ELSE Ok([sharepackages |->
                  [i \in 1..num_signers |->
                     [index |-> shares.val[i].receiver_index,
                      share |-> shares.val[i],
                      public |-> PMul(SpendAuthBasepoint, shares.val[i].value),
                      group_public |-> group_public]],
                pubkeys |->
                  [signer_pubkeys |->
                     [i \in {shares.val[k].receiver_index : k \in 1..num_signers} |->
                        PMul(SpendAuthBasepoint,
                             shares.val[CHOOSE k \in 1..num_signers :
                                          shares.val[k].receiver_index = i].value)],
                   group_public |-> group_public]])

\* SigningCommitments::from((index, &nonces))
SigningCommitmentsFrom(index, nonces) ==
    [index |-> index,
     hiding |-> PMul(SpendAuthBasepoint, nonces.hiding),
     binding |-> PMul(SpendAuthBasepoint, nonces.binding)]

\* b"FROST_rho"
FROST_rho == <<70, 82, 79, 83, 84, 95, 114, 104, 111>>

\* The loop of gen_rho_i over the commitments from the k-th on.
RECURSIVE RhoAbsorbCommitments(_, _, _)
RhoAbsorbCommitments(hasher, commitments, k) ==
    IF k > Len(commitments) THEN hasher
    ELSE LET h1 == HStarUpdate(hasher, U32ToBeBytes(commitments[k].index))
             h2 == HStarUpdate(h1, PointBytesTable[commitments[k].hiding])
             h3 == HStarUpdate(h2, PointBytesTable[commitments[k].binding])
         IN IF h3 >= 0 THEN RhoAbsorbCommitments(h3, commitments, k + 1) ELSE h3

\* gen_rho_i
gen_rho_i(index, signing_package) ==
    LET message_hash == HStarFinalize(HStarUpdate(HStarDefault, signing_package.message))
        hasher == HStarUpdate(HStarUpdate(HStarUpdate(HStarDefault, FROST_rho),
                                          U32ToBeBytes(index)),
                              ScalarToBytes(message_hash))
    IN HStarFinalize(RhoAbsorbCommitments(hasher, signing_package.signing_commitments, 1))

\* The bindings map that sign and aggregate build.
Bindings(signing_package) ==
    [idx \in {signing_package.signing_commitments[k].index :
                k \in DOMAIN signing_package.signing_commitments} |->
       gen_rho_i(idx, signing_package)]

\* The loop of gen_group_commitment over the commitments from the k-th on.
RECURSIVE GroupCommitmentLoop(_, _, _, _)
GroupCommitmentLoop(accumulator, commitments, bindings, k) ==
    IF k > Len(commitments) THEN Ok(accumulator)
    ELSE IF commitments[k].index \notin DOMAIN bindings
         THEN Err("No matching commitment index")
    ELSE GroupCommitmentLoop(
           PAdd(accumulator,
                PAdd(commitments[k].hiding,
                     PMul(commitments[k].binding, bindings[commitments[k].index]))),
           commitments, bindings, k + 1)

\* gen_group_commitment
gen_group_commitment(signing_package, bindings) ==
    GroupCommitmentLoop(Identity, signing_package.signing_commitments, bindings, 1)

\* gen_challenge
gen_challenge(signing_package, group_commitment, group_public) ==
    Challenge(PointBytesTable[group_commitment], group_public.bytes,
              signing_package.message)

\* The loop of gen_lagrange_coeff over the commitments from the k-th on.
RECURSIVE LagrangeNumDen(_, _, _, _, _)
LagrangeNumDen(num, den, signer_index, commitments, k) ==
    IF k > Len(commitments) THEN <<num, den>>
    ELSE IF commitments[k].index = signer_index
         THEN LagrangeNumDen(num, den, signer_index, commitments, k + 1)
    ELSE LagrangeNumDen(
           SMul(num, ScalarFromU64(commitments[k].index)),
           SMul(den, SSub(ScalarFromU64(commitments[k].index),
                          ScalarFromU64(signer_index))),
           signer_index, commitments, k + 1)

\* A Lagrange coefficient that is the inverse of the right one.
gen_lagrange_coeff_inverted(signer_index, signing_package) ==
    LET nd == LagrangeNumDen(1, 1, signer_index, signing_package.signing_commitments, 1)
    IN IF nd[2] = 0 \/ nd[1] = 0 THEN Err("Duplicate shares provided")
       ELSE Ok(SMul(nd[2], SInvert(nd[1]).val))

\* gen_lagrange_coeff
gen_lagrange_coeff(signer_index, signing_package) ==
    LET nd == LagrangeNumDen(1, 1, signer_index, signing_package.signing_commitments, 1)
    IN IF nd[2] = 0 THEN Err("Duplicate shares provided")
       ELSE Ok(SMul(nd[1], SInvert(nd[2]).val))

\* sign
sign(signing_package, participant_nonces, share_package) ==
    LET bindings == Bindings(signing_package)
        lambda_i == gen_lagrange_coeff(share_package.index, signing_package)
        group_commitment == gen_group_commitment(signing_package, bindings)
    IN IF ~lambda_i.ok THEN lambda_i
       ELSE IF ~group_commitment.ok THEN group_commitment
       ELSE LET challenge == gen_challenge(signing_package, group_commitment.val,
                                           share_package.group_public)
            IN IF share_package.index \notin DOMAIN bindings
               THEN Err("No matching binding!")
               ELSE Ok([index |-> share_package.index,
                        signature |->
                          SAdd(SAdd(participant_nonces.hiding,
                                    SMul(participant_nonces.binding,
                                         bindings[share_package.index])),
                               SMul(SMul(lambda_i.val, share_package.share.value),
                                    challenge))])

\* SignatureShare::check_is_valid
check_is_valid(signing_share, pubkey, lambda_i, commitment, challenge) ==
    IF PMul(SpendAuthBasepoint, signing_share.signature)
         # PAdd(commitment, PMul(PMul(pubkey, challenge), lambda_i))
    THEN Err("Invalid signature share")
    ELSE Ok("unit")

Panic(what) == [ok |-> FALSE, err |-> "panic", what |-> what]

\* The first loop of aggregate, over the signature shares from the k-th on:
\* the first error, or Ok.
RECURSIVE AggregateCheckLoop(_, _, _, _, _, _)
AggregateCheckLoop(signing_package, signing_shares, pubkeys, bindings, challenge, k) ==
    IF k > Len(signing_shares) THEN Ok("unit")
    ELSE
      LET signing_share == signing_shares[k]
          lambda_i == gen_lagrange_coeff(signing_share.index, signing_package)
          commitments == signing_package.signing_commitments
          found == {j \in DOMAIN commitments : commitments[j].index = signing_share.index}
      IN IF signing_share.index \notin DOMAIN pubkeys.signer_pubkeys
         THEN Panic("signer_pubkeys has no such key")
         ELSE IF ~lambda_i.ok THEN lambda_i
         ELSE IF found = {} THEN Err("No matching signing commitment for signer")
         ELSE
           LET signer_commitment == commitments[CHOOSE j \in found : \A j2 \in found : j <= j2]
               commitment_i == PAdd(signer_commitment.hiding,
                                    PMul(signer_commitment.binding,
                                         bindings[signing_share.index]))
               valid == check_is_valid(signing_share,
                                       pubkeys.signer_pubkeys[signing_share.index],
                                       lambda_i.val, commitment_i, challenge)
           IN IF ~valid.ok THEN valid
              ELSE AggregateCheckLoop(signing_package, signing_shares, pubkeys,
                                      bindings, challenge, k + 1)

\* The second loop of aggregate: the sum of the signature shares.
RECURSIVE SumShares(_, _, _)
SumShares(z, signing_shares, k) ==
    IF k > Len(signing_shares) THEN z
    ELSE SumShares(SAdd(z, signing_shares[k].signature), signing_shares, k + 1)

\* aggregate
aggregate(signing_package, signing_shares, pubkeys) ==
    LET bindings == Bindings(signing_package)
        group_commitment == gen_group_commitment(signing_package, bindings)
    IN IF ~group_commitment.ok THEN group_commitment
       ELSE
         LET challenge == gen_challenge(signing_package, group_commitment.val,
                                        pubkeys.group_public)
             checked == AggregateCheckLoop(signing_package, signing_shares, pubkeys,
                                           bindings, challenge, 1)
         IN IF ~checked.ok THEN checked
            ELSE Ok([r_bytes |-> PointBytesTable[group_commitment.val],
                     s_bytes |-> ScalarToBytes(SumShares(0, signing_shares, 1))])

(***************************************************************************)
(* Batch verification.                                                     *)
(***************************************************************************)
NafLen == 256

\* Bit `bit` of word `word` of x_u64: four words read little-endian from
\* the 32 bytes of the scalar, and a fifth word that stays 0.
U64Bit(bytes, word, bit) ==
    IF word >= 4 THEN 0 ELSE ByteBit(bytes[word * 8 + (bit \div 8) + 1], bit % 8)

RECURSIVE SumBits(_, _)
SumBits(bits, b) == IF b < 0 THEN 0 ELSE bits[b] * 2^b + SumBits(bits, b - 1)

\* bit_buf & window_mask at position pos.
WindowBits(bytes, pos, w) ==
    LET u64_idx == pos \div 64
        bit_idx == pos % 64
    IN IF bit_idx < 64 - w
       THEN SumBits([b \in 0..(w - 1) |-> U64Bit(bytes, u64_idx, bit_idx + b)], w - 1)
       ELSE SumBits([b \in 0..(w - 1) |->
                       IF bit_idx + b < 64
                       THEN U64Bit(bytes, u64_idx, bit_idx + b)
                       ELSE U64Bit(bytes, 1 + u64_idx, bit_idx + b - 64)], w - 1)

\* One turn of the loop that forgets the carry of a negative digit.
NafStep_no_carry(st, bytes, w) ==
    IF st.pos >= NafLen THEN st
    ELSE LET width == 2^w
             window == st.carry + WindowBits(bytes, st.pos, w)
         IN IF window % 2 = 0 THEN [st EXCEPT !.pos = @ + 1]
            ELSE IF window < width \div 2
                 THEN [pos |-> st.pos + w, carry |-> 0,
                       naf |-> [st.naf EXCEPT ![st.pos + 1] = window]]
            ELSE [pos |-> st.pos + w, carry |-> 0,
                  naf |-> [st.naf EXCEPT ![st.pos + 1] = window - width]]

\* One turn of the while loop of non_adjacent_form; naf[pos] of the code is
\* naf[pos + 1] here.
NafStep(st, bytes, w) ==
    IF st.pos >= NafLen THEN st
    ELSE LET width == 2^w
             window == st.carry + WindowBits(bytes, st.pos, w)
         IN IF window % 2 = 0 THEN [st EXCEPT !.pos = @ + 1]
            ELSE IF window < width \div 2
                 THEN [pos |-> st.pos + w, carry |-> 0,
                       naf |-> [st.naf EXCEPT ![st.pos + 1] = window]]
            ELSE [pos |-> st.pos + w, carry |-> 1,
                  naf |-> [st.naf EXCEPT ![st.pos + 1] = window - width]]

\* n turns of the loop.
RECURSIVE NafLoop(_, _, _, _)
NafLoop(st, bytes, w, n) ==
    IF n = 0 THEN st
    ELSE IF n = 1 THEN NafStep(st, bytes, w)
    ELSE LET half == NafLoop(st, bytes, w, n \div 2)
         IN IF half.pos >= 0 THEN NafLoop(half, bytes, w, n - (n \div 2)) ELSE half

\* non_adjacent_form from the bytes of self.to_bytes() on.
NafOfBytes(bytes, w) ==
    NafLoop([pos |-> 0, carry |-> 0, naf |-> [i \in 1..NafLen |-> 0]],
            bytes, w, NafLen).naf

\* Scalar::non_adjacent_form
non_adjacent_form(x, w) == NafOfBytes(ScalarToBytes(x), w)

\* LookupTable5::from: A, 3A, 5A, ..., 15A.
RECURSIVE LookupTable5Fill(_, _, _)
LookupTable5Fill(Ai, A2, i) ==
    IF i > 7 THEN Ai
    ELSE LookupTable5Fill([Ai EXCEPT ![i + 1] = PAdd(A2, Ai[i])], A2, i + 1)

LookupTable5From(A) == LookupTable5Fill([i \in 1..8 |-> A], PDouble(A), 1)

\* LookupTable5::select
select(table, x) == table[(x \div 2) + 1]

\* The inner loop of optional_multiscalar_mul at digit i, from pair k on.
RECURSIVE MsmAddDigits(_, _, _, _, _)
\* The inner loop that adds the table entry for a negative digit too.
RECURSIVE MsmAddDigits_add_negative(_, _, _, _, _)
MsmAddDigits_add_negative(t, nafs, lookup_tables, i, k) ==
    IF k > Len(nafs) \/ k > Len(lookup_tables) THEN t
    ELSE LET digit == nafs[k][i + 1]
             t2 == IF digit > 0 THEN PAdd(t, select(lookup_tables[k], digit))
                   ELSE IF digit < 0 THEN PAdd(t, select(lookup_tables[k], 0 - digit))
                   ELSE t
         IN MsmAddDigits_add_negative(t2, nafs, lookup_tables, i, k + 1)

MsmAddDigits(t, nafs, lookup_tables, i, k) ==
    IF k > Len(nafs) \/ k > Len(lookup_tables) THEN t
    ELSE LET digit == nafs[k][i + 1]
             t2 == IF digit > 0 THEN PAdd(t, select(lookup_tables[k], digit))
                   ELSE IF digit < 0 THEN PSub(t, select(lookup_tables[k], 0 - digit))
                   ELSE t
         IN MsmAddDigits(t2, nafs, lookup_tables, i, k + 1)

\* The outer loop of optional_multiscalar_mul for i from hi down to lo.
RECURSIVE MsmLoop(_, _, _, _, _)
MsmLoop(r, nafs, lookup_tables, hi, lo) ==
    IF hi < lo THEN r
    ELSE IF hi = lo THEN MsmAddDigits(PDouble(r), nafs, lookup_tables, hi, 1)
    ELSE LET mid == (hi + lo + 1) \div 2
             upper == MsmLoop(r, nafs, lookup_tables, hi, mid)
         IN IF upper >= 0 THEN MsmLoop(upper, nafs, lookup_tables, mid - 1, lo) ELSE upper

\* ExtendedPoint::optional_multiscalar_mul on scalars given by their
\* to_bytes.
MultiscalarMulOfBytes(scalar_bytes, points) ==
    IF \E k \in DOMAIN points : ~points[k].some THEN Nothing
    ELSE LET nafs == [k \in DOMAIN scalar_bytes |-> NafOfBytes(scalar_bytes[k], 5)]
             lookup_tables == [k \in DOMAIN points |-> LookupTable5From(points[k].val)]
         IN Some(MsmLoop(Identity, nafs, lookup_tables, NafLen - 1, 0))

\* ExtendedPoint::optional_multiscalar_mul
optional_multiscalar_mul(scalars, points) ==
    MultiscalarMulOfBytes([k \in DOMAIN scalars |-> ScalarToBytes(scalars[k])], points)

\* VartimeMultiscalarMul::vartime_multiscalar_mul
vartime_multiscalar_mul(scalars, points) ==
    optional_multiscalar_mul(scalars, [k \in DOMAIN points |-> Some(points[k])]).val

\* Item::from((vk_bytes, sig, msg))
ItemFrom(vk_bytes, sig, msg) ==
    [vk_bytes |-> vk_bytes, sig |-> sig, c |-> Challenge(sig.r_bytes, vk_bytes, msg)]

\* Verifier::default
VerifierDefault == [signatures |-> <<>>, batch_size |-> 0]

\* A queue that keeps one signature per key: a second signature under a
\* key replaces the first.
queue_one_per_key(verifier, item) ==
    [signatures |->
       (item.vk_bytes :> <<[c |-> item.c, sig |-> item.sig]>>) @@ verifier.signatures,
     batch_size |-> verifier.batch_size + 1]

\* Verifier::queue
queue(verifier, item) ==
    [signatures |->
       IF item.vk_bytes \in DOMAIN verifier.signatures
       THEN [verifier.signatures EXCEPT
               ![item.vk_bytes] = Append(@, [c |-> item.c, sig |-> item.sig])]
       ELSE (item.vk_bytes :> <<[c |-> item.c, sig |-> item.sig]>>) @@ verifier.signatures,
     batch_size |-> verifier.batch_size + 1]

\* The 128-bit values of gen_128_bits are below the order of the scalar
\* field: here, the values of as many bits as stay below L.
WeightBits == CHOOSE k \in 0..8 : 2^k < L /\ 2^(k + 1) >= L

Weights == 0..(2^WeightBits - 1)

\* Scalar::from_raw
ScalarFromRaw(val) == val % L

\* P_coeff += z * s
PCoeffStep_plus(P_coeff, z, s) == SAdd(P_coeff, SMul(z, s))

\* P_coeff -= z * s
PCoeffStep(P_coeff, z, s) == SSub(P_coeff, SMul(z, s))

\* The inner loop of Verifier::verify over the signatures of one key, from
\* the k-th on; zs are the values the rng gives, acc.drawn of them used.
RECURSIVE VerifySigsLoop(_, _, _, _)
VerifySigsLoop(sigs, k, zs, acc) ==
    IF k > Len(sigs) THEN acc
    ELSE LET c == sigs[k].c
             sig == sigs[k].sig
             maybe_point == PointFromBytes(sig.r_bytes)
             maybe_scalar == ScalarFromBytes(sig.s_bytes)
         IN IF ~maybe_point.some THEN [acc EXCEPT !.ret = Some(Err("InvalidSignature"))]
            ELSE IF ~maybe_scalar.some
                 THEN [acc EXCEPT !.ret = Some(Err("InvalidSignature"))]
            ELSE LET z == ScalarFromRaw(zs[acc.drawn + 1])
                 IN VerifySigsLoop(sigs, k + 1, zs,
                       [acc EXCEPT !.drawn = @ + 1,
                                   !.P_coeff = PCoeffStep(@, z, maybe_scalar.val),
                                   !.Rs = Append(@, maybe_point.val),
                                   !.R_coeffs = Append(@, z),
                                   !.VK_coeff = SAdd(@, SMul(z, c))])

\* The outer loop of Verifier::verify over the keys of the map, visited in
\* the order `order`, from the k-th on.
RECURSIVE VerifyKeysLoop(_, _, _, _, _)
VerifyKeysLoop(signatures, order, k, zs, acc) ==
    IF k > Len(order) THEN acc
    ELSE LET vk_bytes == order[k]
             VK == VerificationKeyTryFrom(vk_bytes)
         IN IF ~VK.ok
            THEN [acc EXCEPT !.ret = Some(Panic("unwrap on Err(MalformedVerificationKey)"))]
            ELSE LET inner == VerifySigsLoop(signatures[vk_bytes], 1, zs,
                                             [acc EXCEPT !.VK_coeff = 0])
                 IN IF inner.ret.some THEN inner
                    ELSE VerifyKeysLoop(signatures, order, k + 1, zs,
                            [inner EXCEPT !.VKs = Append(@, VK.val.point),
                                          !.VK_coeffs = Append(@, inner.VK_coeff)])

\* Every batch passes.
BatchCheck_always_ok(check) == Ok("unit")

\* The end of Verifier::verify: Ok when check is of small order.
BatchCheck(check) ==
    IF is_small_order(check) THEN Ok("unit") ELSE Err("InvalidSignature")

\* Verifier::verify, for one iteration order of the map and one sequence of
\* values from the rng.
verify(T, verifier, order, zs) ==
    LET acc == VerifyKeysLoop(verifier.signatures, order, 1, zs,
                   [VK_coeffs |-> <<>>, VKs |-> <<>>, R_coeffs |-> <<>>, Rs |-> <<>>,
                    P_coeff |-> 0, VK_coeff |-> 0, drawn |-> 0, ret |-> Nothing])
    IN IF acc.ret.some THEN acc.ret.val
       ELSE LET P == basepoint(T)
                check == vartime_multiscalar_mul(
                             <<acc.P_coeff>> \o acc.VK_coeffs \o acc.R_coeffs,
                             <<P>> \o acc.VKs \o acc.Rs)
            IN BatchCheck(check)

(***************************************************************************)
(* FROST messages: messages.rs, messages/constants.rs, validate.rs and     *)
(* serialize.rs.                                                           *)
(***************************************************************************)
BASIC_FROST_SERIALIZATION == 0

U8Max == 255

DEALER_PARTICIPANT_ID == U8Max - 1

AGGREGATOR_PARTICIPANT_ID == U8Max

MAX_SIGNER_PARTICIPANT_ID == U8Max - 2

MAX_SIGNERS == MAX_SIGNER_PARTICIPANT_ID + 1

ZCASH_MAX_PROTOCOL_MESSAGE_LEN == 2 * 1024 * 1024

MIN_SIGNERS == 2

\* enum ParticipantId
Signer(id) == [role |-> "Signer", id |-> id]

Dealer == [role |-> "Dealer"]

Aggregator == [role |-> "Aggregator"]

\* The position of the variant in the enum, which the derived PartialOrd
\* compares first.
VariantIndex(p) ==
    IF p.role = "Signer" THEN 0 ELSE IF p.role = "Dealer" THEN 1 ELSE 2

\* a <= b of the derived PartialOrd of ParticipantId.
ParticipantIdLe(a, b) ==
    IF VariantIndex(a) # VariantIndex(b) THEN VariantIndex(a) < VariantIndex(b)
    ELSE IF a.role = "Signer" THEN a.id <= b.id
    ELSE TRUE

\* A Vec or map of len entries, all holding item; a map has the keys
\* Signer(0) .. Signer(len - 1).
Collection(len, item) == [len |-> len, item |-> item]

\* impl Validate for Message that looks at the version of the header first.
MessageValidate_with_version(message) ==
    IF message.header.version # BASIC_FROST_SERIALIZATION THEN Err("WrongVersion")
    ELSE
       LET header == message.header
           kind == message.payload.kind
       IN IF kind = "SharePackage"
          THEN IF header.sender # Dealer THEN Err("SenderMustBeDealer")
               ELSE IF ParticipantIdLe(header.receiver, Signer(MAX_SIGNER_PARTICIPANT_ID))
               THEN Err("ReceiverMustBeSigner")
               ELSE Ok(message)
          ELSE IF kind \in {"SigningCommitments", "SignatureShare"}
          THEN IF ParticipantIdLe(header.sender, Signer(MAX_SIGNER_PARTICIPANT_ID))
               THEN Err("SenderMustBeSigner")
               ELSE IF header.receiver # Aggregator THEN Err("ReceiverMustBeAggergator")
               ELSE Ok(message)
          ELSE IF header.sender # Aggregator THEN Err("SenderMustBeAggregator")
               ELSE IF ParticipantIdLe(header.receiver, Signer(MAX_SIGNER_PARTICIPANT_ID))
               THEN Err("ReceiverMustBeSigner")
               ELSE Ok(message)

\* impl Validate for Message
MessageValidate(message) ==
    LET header == message.header
        kind == message.payload.kind
    IN IF kind = "SharePackage"
       THEN IF header.sender # Dealer THEN Err("SenderMustBeDealer")
            ELSE IF ParticipantIdLe(header.receiver, Signer(MAX_SIGNER_PARTICIPANT_ID))
            THEN Err("ReceiverMustBeSigner")
            ELSE Ok(message)
       ELSE IF kind \in {"SigningCommitments", "SignatureShare"}
       THEN IF ParticipantIdLe(header.sender, Signer(MAX_SIGNER_PARTICIPANT_ID))
            THEN Err("SenderMustBeSigner")
            ELSE IF header.receiver # Aggregator THEN Err("ReceiverMustBeAggergator")
            ELSE Ok(message)
       ELSE IF header.sender # Aggregator THEN Err("SenderMustBeAggregator")
            ELSE IF ParticipantIdLe(header.receiver, Signer(MAX_SIGNER_PARTICIPANT_ID))
            THEN Err("ReceiverMustBeSigner")
            ELSE Ok(message)

\* impl Validate for Header without the comparison of sender and receiver.
HeaderValidate_version_only(header) ==
    IF header.version # BASIC_FROST_SERIALIZATION THEN Err("WrongVersion")
    ELSE Ok(header)

\* impl Validate for Header
HeaderValidate(header) ==
    IF header.version # BASIC_FROST_SERIALIZATION THEN Err("WrongVersion")
    ELSE IF header.sender = header.receiver THEN Err("SameSenderAndReceiver")
    ELSE Ok(header)

\* impl Validate for Payload that rejects a message of the maximum length.
PayloadValidate_ge(payload) ==
    IF payload.kind = "SigningPackage"
         /\ payload.message.len >= ZCASH_MAX_PROTOCOL_MESSAGE_LEN
    THEN Err("MsgTooBig")
    ELSE Ok(payload)

\* impl Validate for Payload
PayloadValidate(payload) ==
    IF payload.kind = "SigningPackage"
         /\ payload.message.len > ZCASH_MAX_PROTOCOL_MESSAGE_LEN
    THEN Err("MsgTooBig")
    ELSE Ok(payload)

\* impl Serialize for ParticipantId with the byte of the aggregator for the
\* dealer.
SerializeParticipantId_dealer_as_max(p) ==
    IF p.role = "Signer" THEN p.id ELSE AGGREGATOR_PARTICIPANT_ID

\* impl Serialize for ParticipantId: the u8 written.
SerializeParticipantId(p) ==
    IF p.role = "Signer" THEN p.id
    ELSE IF p.role = "Dealer" THEN DEALER_PARTICIPANT_ID
    ELSE AGGREGATOR_PARTICIPANT_ID

\* ParticipantIdVisitor::visit_u64
DeserializeParticipantId(value) ==
    IF value = DEALER_PARTICIPANT_ID THEN Dealer
    ELSE IF value = AGGREGATOR_PARTICIPANT_ID THEN Aggregator
    ELSE Signer(value % (U8Max + 1))

\* The derived serialization of Header and Message: field by field, the
\* participant ids through their own impl.
SerializeHeader(header) ==
    <<header.version, SerializeParticipantId(header.sender),
      SerializeParticipantId(header.receiver)>>

DeserializeHeader(bytes) ==
    [version |-> bytes[1],
     sender |-> DeserializeParticipantId(bytes[2]),
     receiver |-> DeserializeParticipantId(bytes[3])]

SerializeMessage(message) ==
    [header |-> SerializeHeader(message.header), payload |-> message.payload]

DeserializeMessage(serialized) ==
    [header |-> DeserializeHeader(serialized.header), payload |-> serialized.payload]

(***************************************************************************)
(* State.                                                                  *)
(***************************************************************************)
VARIABLES
    \* Share generation (generate_shares, verify_share, reconstruct_secret):
    sh_phase,       \* "start", "dealt" or "failed"
    sh_secret,      \* the secret handed to generate_shares
    sh_numshares,   \* numshares
    sh_threshold,   \* threshold
    sh_shares,      \* what generate_shares returned
    sh_op,          \* the last call on the shares and what it returned
    \* A FROST signing session (keygen_with_dealer, preprocess, sign, aggregate):
    f_phase,        \* "start", "keyed", "signing", "done" or "failed"
    f_rng,          \* the rng: its seed and how many values were drawn
    f_numsigners,   \* num_signers
    f_threshold,    \* threshold
    f_keygen,       \* what keygen_with_dealer returned
    f_nonces,       \* the SigningNonces each participant keeps
    f_package,      \* the SigningPackage of the coordinator
    f_shares,       \* the signature shares the coordinator received, in order
    f_result,       \* what sign or aggregate returned last
    \* The signers' state machine (SecretShare::begin_sign, AwaitingCommitment):
    sg_borrowers,   \* per SecretShare, the live AwaitingCommitments that hold it
    sg_sessions,    \* every AwaitingCommitment made so far: its share and state
    sg_panicked,    \* the calling thread panicked
    sg_last,        \* the last call and how it ended
    \* Signing, verification and randomization of one key (tests/proptests.rs):
    s_phase,        \* "start", "made", "checked" or "randomized"
    s_T,            \* the parameter family of the case
    s_sk,           \* the signing key
    s_case,         \* the SignatureCase
    s_out,          \* what check or the randomization test computed
    \* The test tweak_signature of tests/proptests.rs:
    tw_phase,       \* "start", "tweaking" or "checked"
    tw_T,           \* the parameter family of the case
    tw_orig,        \* the case as SignatureCase::new made it
    tw_case,        \* the case, tweaked so far
    tw_tweaks,      \* the tweaks applied so far
    tw_verified,    \* whether decoding the key and verifying succeeded
    tw_passed       \* what check returned

sh_vars == <<sh_phase, sh_secret, sh_numshares, sh_threshold, sh_shares, sh_op>>

f_vars == <<f_phase, f_rng, f_numsigners, f_threshold, f_keygen, f_nonces,
            f_package, f_shares, f_result>>

sg_vars == <<sg_borrowers, sg_sessions, sg_panicked, sg_last>>

s_vars == <<s_phase, s_T, s_sk, s_case, s_out>>

tw_vars == <<tw_phase, tw_T, tw_orig, tw_case, tw_tweaks, tw_verified, tw_passed>>

VARIABLES
    \* A batch verifier (Verifier::new, queue, verify):
    b_phase,        \* "start", "open" or "verified"
    b_T,            \* the SigType of the verifier
    b_verifier,     \* the Verifier: signatures and batch_size
    b_items,        \* the (vk_bytes, sig, msg) tuples queued so far, in order
    b_order,        \* the order in which verify visited the keys of the map
    b_zs,           \* the values verify took from the rng
    b_result        \* what verify returned

b_vars == <<b_phase, b_T, b_verifier, b_items, b_order, b_zs, b_result>>

VARIABLES
    \* The aggregator's side of a signing session (aggregator::begin_sign):
    ag_phase,        \* "start", "idle" or "called"
    ag_numsigners,   \* the number of signers of the key
    ag_threshold,    \* the threshold of the key
    ag_participants, \* the participants handed to begin_sign
    ag_session,      \* whether a session (AwaitingCommitmentShares) exists
    ag_result        \* what begin_sign did

ag_vars == <<ag_phase, ag_numsigners, ag_threshold, ag_participants, ag_session, ag_result>>

VARIABLES
    \* A FROST message (messages.rs) and one operation on it:
    ms_phase,       \* "start", "built", "serialized" or "done"
    ms_message,     \* the Message: header and payload
    ms_serialized,  \* what serializing the message gave
    ms_op           \* the operation applied and what it returned

ms_vars == <<ms_phase, ms_message, ms_serialized, ms_op>>

VARIABLES
    \* A coordinator that builds a signing package and aggregates the
    \* signature shares the network delivers (SigningPackage, aggregate):
    co_phase,       \* "start", "keyed", "packaged" or "aggregated"
    co_keygen,      \* what keygen_with_dealer returned
    co_nonces,      \* the SigningNonces of each participant
    co_package,     \* the SigningPackage
    co_shares,      \* the signature shares handed to aggregate
    co_result       \* what aggregate returned

co_vars == <<co_phase, co_keygen, co_nonces, co_package, co_shares, co_result>>

VARIABLES
    \* A participant that signs the packages it is sent (SigningNonces, sign):
    pt_phase,       \* "start" or "keyed"
    pt_keygen,      \* what keygen_with_dealer returned
    pt_index,       \* the index of the participant
    pt_commitments, \* the nonces of every participant, which give the commitments
    pt_nonces,      \* the SigningNonces the participant holds
    pt_calls        \* the calls of sign that returned: package, nonces, result

pt_vars == <<pt_phase, pt_keygen, pt_index, pt_commitments, pt_nonces, pt_calls>>

VARIABLES
    \* The end-to-end run of tests/frost.rs (keygen_and_sign): the test's own
    \* task, one aggregator task, one task per party, and their channels.
    rt_cfg,         \* num_shares and threshold of the run
    rt_main,        \* the test's task: where it is, which request it is at
    rt_agg,         \* the aggregator task: where it is, the request it serves
    rt_party,       \* where each party task is, by share_id
    rt_seen,        \* the versions of the two watch channels each party saw
    rt_chan,        \* the channels: what was sent and which are closed
    rt_results      \* the oneshot channel of each signing request

rt_vars == <<rt_cfg, rt_main, rt_agg, rt_party, rt_seen, rt_chan, rt_results>>

VARIABLES
    \* The state values of aggregator sessions, frost/aggregator.rs, held by
    \* one user of the module, and the calls made on them.
    se_states,      \* the state values created: kind, where from, moved or not
    se_calls,       \* the calls made: function, state consumed, result
    se_signatures   \* the signatures the sessions returned

se_vars == <<se_states, se_calls, se_signatures>>

VARIABLES
    \* The scalar multiplication helpers of batch.rs applied to one input.
    nf_op,          \* the function applied, "none" before
    nf_input,       \* its arguments
    nf_output       \* what it returned

nf_vars == <<nf_op, nf_input, nf_output>>

vars == <<sh_vars, f_vars, sg_vars, s_vars, tw_vars, b_vars, ag_vars, ms_vars, co_vars, pt_vars, rt_vars, se_vars, nf_vars>>

\* The variables each component leaves alone.
not_sh == <<f_vars, sg_vars, s_vars, tw_vars, b_vars, ag_vars, ms_vars, co_vars, pt_vars, rt_vars, se_vars, nf_vars>>

not_f == <<sh_vars, sg_vars, s_vars, tw_vars, b_vars, ag_vars, ms_vars, co_vars, pt_vars, rt_vars, se_vars, nf_vars>>

not_sg == <<sh_vars, f_vars, s_vars, tw_vars, b_vars, ag_vars, ms_vars, co_vars, pt_vars, rt_vars, se_vars, nf_vars>>

not_s == <<sh_vars, f_vars, sg_vars, tw_vars, b_vars, ag_vars, ms_vars, co_vars, pt_vars, rt_vars, se_vars, nf_vars>>

not_tw == <<sh_vars, f_vars, sg_vars, s_vars, b_vars, ag_vars, ms_vars, co_vars, pt_vars, rt_vars, se_vars, nf_vars>>

not_b == <<sh_vars, f_vars, sg_vars, s_vars, tw_vars, ag_vars, ms_vars, co_vars, pt_vars, rt_vars, se_vars, nf_vars>>

not_ag == <<sh_vars, f_vars, sg_vars, s_vars, tw_vars, b_vars, ms_vars, co_vars, pt_vars, rt_vars, se_vars, nf_vars>>

not_ms == <<sh_vars, f_vars, sg_vars, s_vars, tw_vars, b_vars, ag_vars, co_vars, pt_vars, rt_vars, se_vars, nf_vars>>

not_co == <<sh_vars, f_vars, sg_vars, s_vars, tw_vars, b_vars, ag_vars, ms_vars, pt_vars, rt_vars, se_vars, nf_vars>>

not_pt == <<sh_vars, f_vars, sg_vars, s_vars, tw_vars, b_vars, ag_vars, ms_vars, co_vars, rt_vars, se_vars, nf_vars>>

not_rt == <<sh_vars, f_vars, sg_vars, s_vars, tw_vars, b_vars, ag_vars, ms_vars, co_vars, pt_vars, se_vars, nf_vars>>

not_se == <<sh_vars, f_vars, sg_vars, s_vars, tw_vars, b_vars, ag_vars, ms_vars, co_vars, pt_vars, rt_vars, nf_vars>>

not_nf == <<sh_vars, f_vars, sg_vars, s_vars, tw_vars, b_vars, ag_vars, ms_vars, co_vars, pt_vars, rt_vars, se_vars>>

(***************************************************************************)
(* Share generation, share verification and secret reconstruction, as in   *)
(* the test check_share_generation.                                        *)
(***************************************************************************)
NoOp == [kind |-> "none", arg |-> <<>>, result |-> None]

ShInit ==
    /\ sh_phase = "start"
    /\ sh_secret = 0
    /\ sh_numshares = 0
    /\ sh_threshold = 0
    /\ sh_shares = None
    /\ sh_op = NoOp

\* The vectors of threshold - 1 coefficients the rng can give.
CoefficientVectors(threshold) ==
    IF threshold < 1 THEN {<<>>} ELSE [1..(threshold - 1) -> Scalars]

GenerateShares ==
    /\ sh_phase = "start"
    /\ \E secret \in Scalars, numshares \in 0..MaxSigners, threshold \in 0..MaxSigners :
         \E coefficients \in CoefficientVectors(threshold) :
           LET r == generate_shares(secret, numshares, threshold, coefficients)
           IN /\ sh_secret' = secret
              /\ sh_numshares' = numshares
              /\ sh_threshold' = threshold
              /\ sh_shares' = r
              /\ sh_phase' = IF r.ok THEN "dealt" ELSE "failed"
    /\ UNCHANGED <<sh_op, not_sh>>

VerifyShare ==
    /\ sh_phase = "dealt"
    /\ \E i \in 1..sh_numshares :
         sh_op' = [kind |-> "verify_share", arg |-> <<i>>,
                   result |-> verify_share(sh_shares.val[i])]
    /\ UNCHANGED <<sh_phase, sh_secret, sh_numshares, sh_threshold, sh_shares, not_sh>>

IsAscending(s) == \A i \in 1..(Len(s) - 1) : s[i] < s[i + 1]

\* The share lists handed to reconstruct_secret: every subset of the shares
\* in index order, the full list reversed, and a share listed twice.
ReconstructInputs(n) ==
    {s \in UNION {[1..k -> 1..n] : k \in 0..n} : IsAscending(s)}
      \cup {[i \in 1..n |-> n + 1 - i]}
      \cup {<<i, i>> : i \in 1..n}

ReconstructSecret ==
    /\ sh_phase = "dealt"
    /\ \E picked \in ReconstructInputs(sh_numshares) :
         sh_op' = [kind |-> "reconstruct_secret", arg |-> picked,
                   result |-> reconstruct_secret(
                                [i \in 1..Len(picked) |-> sh_shares.val[picked[i]]])]
    /\ UNCHANGED <<sh_phase, sh_secret, sh_numshares, sh_threshold, sh_shares, not_sh>>

\* The SharePackage the dealer makes of a share (keygen_with_dealer).
SharePackageOf(share, secret) ==
    [index |-> share.receiver_index,
     share |-> share,
     public |-> PMul(SpendAuthBasepoint, share.value),
     group_public |-> VerificationKeyFrom("SpendAuth", secret)]

\* The share packages a participant can receive for the i-th share: the
\* dealer's, one whose share value was changed, and one whose (public)
\* index field was changed.
ReceivedSharePackages(i) ==
    LET dealt == SharePackageOf(sh_shares.val[i], sh_secret)
    IN {dealt,
        [dealt EXCEPT !.share.value = SAdd(@, 1)],
        [dealt EXCEPT !.index = (i % sh_numshares) + 1]}

\* KeyPackage::try_from(sharepackage)
KeyPackageFromSharePackage ==
    /\ sh_phase = "dealt"
    /\ \E i \in 1..sh_numshares :
         \E sharepackage \in ReceivedSharePackages(i) :
           sh_op' = [kind |-> "try_from", arg |-> sharepackage,
                     result |-> KeyPackageTryFrom(sharepackage)]
    /\ UNCHANGED <<sh_phase, sh_secret, sh_numshares, sh_threshold, sh_shares, not_sh>>

ShNext == GenerateShares \/ VerifyShare \/ ReconstructSecret \/ KeyPackageFromSharePackage

(***************************************************************************)
(* A FROST signing session with a trusted dealer: the participants run     *)
(* preprocess in any order, the coordinator lists their commitments as     *)
(* they arrive, the listed participants sign in any order and the          *)
(* coordinator aggregates the shares it holds.                             *)
(***************************************************************************)
Messages == {<<>>, <<1>>, <<2, 3>>}

FInit ==
    /\ f_phase = "start"
    /\ f_rng = [seed |-> 0, pos |-> 0]
    /\ f_numsigners = 0
    /\ f_threshold = 0
    /\ f_keygen = None
    /\ f_nonces = <<>>
    /\ f_package = [message |-> <<>>, signing_commitments |-> <<>>]
    /\ f_shares = <<>>
    /\ f_result = None

KeygenWithDealer ==
    /\ f_phase = "start"
    /\ \E seed \in Seeds, num_signers \in 0..MaxSigners, threshold \in 0..MaxSigners :
         LET r == keygen_with_dealer(num_signers, threshold, seed)
         IN /\ f_numsigners' = num_signers
            /\ f_threshold' = threshold
            /\ f_keygen' = r
            /\ f_rng' = [seed |-> seed,
                         pos |-> IF r.ok THEN threshold ELSE 1]
            /\ f_phase' = IF r.ok THEN "keyed" ELSE "failed"
    /\ UNCHANGED <<f_nonces, f_package, f_shares, f_result, not_f>>

\* SigningNonces::new
SigningNoncesNew(rng) ==
    [hiding |-> Draw(rng.seed, rng.pos), binding |-> Draw(rng.seed, rng.pos + 1)]

\* preprocess(1, participant_index, &mut rng); the commitment goes to the
\* coordinator, who appends it to the package.
Preprocess ==
    /\ f_phase = "keyed"
    /\ \E participant_index \in 1..f_numsigners :
         /\ participant_index \notin DOMAIN f_nonces
         /\ LET nonces == SigningNoncesNew(f_rng)
            IN /\ f_nonces' = (participant_index :> nonces) @@ f_nonces
               /\ f_package' =
                    [f_package EXCEPT !.signing_commitments =
                       Append(@, SigningCommitmentsFrom(participant_index, nonces))]
    /\ f_rng' = [f_rng EXCEPT !.pos = @ + 2]
    /\ UNCHANGED <<f_phase, f_numsigners, f_threshold, f_keygen, f_shares, f_result,
                   not_f>>

\* The coordinator fixes the message of the package.
StartSigning ==
    /\ f_phase = "keyed"
    /\ Len(f_package.signing_commitments) >= 1
    /\ \E message \in Messages : f_package' = [f_package EXCEPT !.message = message]
    /\ f_phase' = "signing"
    /\ UNCHANGED <<f_rng, f_numsigners, f_threshold, f_keygen, f_nonces, f_shares,
                   f_result, not_f>>

SharesIndices == {f_shares[k].index : k \in DOMAIN f_shares}

PackageIndices ==
    {f_package.signing_commitments[k].index : k \in DOMAIN f_package.signing_commitments}

\* A listed participant signs with its own nonces and its own share package.
Sign ==
    /\ f_phase = "signing"
    /\ \E index \in PackageIndices \ SharesIndices :
         LET r == sign(f_package, f_nonces[index], f_keygen.val.sharepackages[index])
         IN /\ f_result' = r
            /\ f_shares' = IF r.ok THEN Append(f_shares, r.val) ELSE f_shares
    /\ UNCHANGED <<f_phase, f_rng, f_numsigners, f_threshold, f_keygen, f_nonces,
                   f_package, not_f>>

\* The coordinator aggregates the shares it holds.
Aggregate ==
    /\ f_phase = "signing"
    /\ f_result' = aggregate(f_package, f_shares, f_keygen.val.pubkeys)
    /\ f_phase' = "done"
    /\ UNCHANGED <<f_rng, f_numsigners, f_threshold, f_keygen, f_nonces, f_package,
                   f_shares, not_f>>

FNext == KeygenWithDealer \/ Preprocess \/ StartSigning \/ Sign \/ Aggregate

(***************************************************************************)
(* The signers' state machine.  begin_sign takes the share by &'ss mut     *)
(* and hands that borrow to the AwaitingCommitment it returns; a call the  *)
(* borrow checker refuses is a call that ends "rejected" and changes       *)
(* nothing.  recv takes the AwaitingCommitment by value.                   *)
(***************************************************************************)
SecretShares == 1..MaxShares

SgInit ==
    /\ sg_borrowers = [ss \in SecretShares |-> {}]
    /\ sg_sessions = <<>>
    /\ sg_panicked = FALSE
    /\ sg_last = [op |-> "none", share |-> 0, session |-> 0, result |-> "none"]

\* A begin_sign that takes the share by shared reference.
MutBorrowAvailable_shared(borrowers) == TRUE

\* &'ss mut self: the share can be borrowed when nothing else holds it.
MutBorrowAvailable(borrowers) == borrowers = {}

\* SecretShare::begin_sign
BeginSign ==
    /\ ~sg_panicked
    /\ Len(sg_sessions) < MaxSessions
    /\ \E ss \in SecretShares :
         IF MutBorrowAvailable(sg_borrowers[ss])
         THEN LET session == Len(sg_sessions) + 1
              IN /\ sg_sessions' = Append(sg_sessions, [share |-> ss, state |-> "live"])
                 /\ sg_borrowers' = [sg_borrowers EXCEPT ![ss] = @ \cup {session}]
                 /\ sg_last' = [op |-> "begin_sign", share |-> ss, session |-> session,
                                result |-> "Ok"]
         ELSE /\ sg_last' = [op |-> "begin_sign", share |-> ss, session |-> 0,
                             result |-> "rejected"]
              /\ UNCHANGED <<sg_borrowers, sg_sessions>>
    /\ UNCHANGED <<sg_panicked, not_sg>>

\* AwaitingCommitment::recv: takes self by value, then unimplemented!().
Recv ==
    /\ ~sg_panicked
    /\ \E session \in DOMAIN sg_sessions :
         LET ss == sg_sessions[session].share
         IN IF sg_sessions[session].state = "live"
            THEN /\ sg_sessions' = [sg_sessions EXCEPT ![session].state = "consumed"]
                 /\ sg_borrowers' = [sg_borrowers EXCEPT ![ss] = @ \ {session}]
                 /\ sg_panicked' = TRUE
                 /\ sg_last' = [op |-> "recv", share |-> ss, session |-> session,
                                result |-> "panic: not implemented"]
            ELSE /\ sg_last' = [op |-> "recv", share |-> ss, session |-> session,
                                result |-> "rejected"]
                 /\ UNCHANGED <<sg_borrowers, sg_sessions, sg_panicked>>
    /\ UNCHANGED not_sg

\* The AwaitingCommitment goes out of scope without recv.
Drop ==
    /\ ~sg_panicked
    /\ \E session \in DOMAIN sg_sessions :
         LET ss == sg_sessions[session].share
         IN IF sg_sessions[session].state = "live"
            THEN /\ sg_sessions' = [sg_sessions EXCEPT ![session].state = "dropped"]
                 /\ sg_borrowers' = [sg_borrowers EXCEPT ![ss] = @ \ {session}]
                 /\ sg_last' = [op |-> "drop", share |-> ss, session |-> session,
                                result |-> "Ok"]
            ELSE /\ sg_last' = [op |-> "drop", share |-> ss, session |-> session,
                                result |-> "rejected"]
                 /\ UNCHANGED <<sg_borrowers, sg_sessions>>
    /\ UNCHANGED <<sg_panicked, not_sg>>

SgNext == BeginSign \/ Recv \/ Drop

(***************************************************************************)
(* One key: a SignatureCase is made and checked, and a SpendAuth key is    *)
(* randomized both ways, as in tests/proptests.rs.                         *)
(***************************************************************************)
\* b"test message for proptests"
TestMessage ==
    <<116, 101, 115, 116, 32, 109, 101, 115, 115, 97, 103, 101, 32, 102, 111, 114,
      32, 112, 114, 111, 112, 116, 101, 115, 116, 115>>

CaseMessages == {<<>>, <<90>>, TestMessage}

NoCase == [msg |-> <<>>, sig |-> <<>>, pk_bytes |-> <<>>, is_valid |-> FALSE]

SInit ==
    /\ s_phase = "start"
    /\ s_T = "SpendAuth"
    /\ s_sk = 0
    /\ s_case = NoCase
    /\ s_out = [kind |-> "none"]

\* SignatureCase::new
SignatureCaseNew(T, sk, msg, seed) ==
    [msg |-> msg,
     sig |-> SigningKeySign(T, sk, msg, seed),
     pk_bytes |-> VerificationKeyFrom(T, sk).bytes,
     is_valid |-> TRUE]

NewCase ==
    /\ s_phase = "start"
    /\ \E T \in SigTypes, sk \in Scalars, msg \in CaseMessages, seed \in Seeds :
         /\ s_T' = T
         /\ s_sk' = sk
         /\ s_case' = SignatureCaseNew(T, sk, msg, seed)
    /\ s_phase' = "made"
    /\ UNCHANGED <<s_out, not_s>>

CheckCase ==
    /\ s_phase = "made"
    /\ s_out' = [kind |-> "check", passed |-> SignatureCaseCheck(s_T, s_case)]
    /\ s_phase' = "checked"
    /\ UNCHANGED <<s_T, s_sk, s_case, not_s>>

\* randomization_commutes_with_pubkey_homomorphism
RandomizeBothWays ==
    /\ s_phase = "made"
    /\ s_T = "SpendAuth"
    /\ \E r \in Scalars :
         LET pk == VerificationKeyFrom("SpendAuth", s_sk)
             sk_r == SigningKeyRandomize(s_sk, r)
             pk_r == VerificationKeyRandomize(pk, r)
         IN s_out' = [kind |-> "randomize", r |-> r,
                      pk_r_via_sk_rand |-> VerificationKeyFrom("SpendAuth", sk_r).bytes,
                      pk_r_via_pk_rand |-> pk_r.bytes]
    /\ s_phase' = "randomized"
    /\ UNCHANGED <<s_T, s_sk, s_case, not_s>>

SNext == NewCase \/ CheckCase \/ RandomizeBothWays

(***************************************************************************)
(* The test tweak_signature: a case is made, a vector of tweaks is applied *)
(* to it and the case is checked.                                          *)
(***************************************************************************)
Tweaks == {"None", "ChangeMessage", "ChangePubkey"}

TwInit ==
    /\ tw_phase = "start"
    /\ tw_T = "SpendAuth"
    /\ tw_orig = NoCase
    /\ tw_case = NoCase
    /\ tw_tweaks = <<>>
    /\ tw_verified = FALSE
    /\ tw_passed = FALSE

RECURSIVE Pushed(_, _)
Pushed(msg, k) == IF k = 0 THEN msg ELSE Pushed(Append(msg, 90), k - 1)

\* BLAKE2b is collision resistant; the digest of the model is not.  The
\* cases of the model are those on which its digest tells the message from
\* the messages that ChangeMessage makes of it.
DigestSeparates(case) ==
    \A k \in 1..(MaxTweaks + 1) :
      Challenge(case.sig.r_bytes, case.pk_bytes, Pushed(case.msg, k))
        # Challenge(case.sig.r_bytes, case.pk_bytes, case.msg)

TweakNewCase ==
    /\ tw_phase = "start"
    /\ \E T \in SigTypes, sk \in Scalars, seed \in Seeds :
         LET case == SignatureCaseNew(T, sk, TestMessage, seed)
         IN /\ DigestSeparates(case)
            /\ tw_T' = T
            /\ tw_orig' = case
            /\ tw_case' = case
    /\ tw_phase' = "tweaking"
    /\ UNCHANGED <<tw_tweaks, tw_verified, tw_passed, not_tw>>

ApplyTweak ==
    /\ tw_phase = "tweaking"
    /\ Len(tw_tweaks) < MaxTweaks
    /\ \E tweak \in Tweaks :
         /\ tw_case' = apply_tweak(tw_case, tweak)
         /\ tw_tweaks' = Append(tw_tweaks, tweak)
    /\ UNCHANGED <<tw_phase, tw_T, tw_orig, tw_verified, tw_passed, not_tw>>

TweakCheck ==
    /\ tw_phase = "tweaking"
    /\ tw_verified' = SignatureCaseVerified(tw_T, tw_case).ok
    /\ tw_passed' = SignatureCaseCheck(tw_T, tw_case)
    /\ tw_phase' = "checked"
    /\ UNCHANGED <<tw_T, tw_orig, tw_case, tw_tweaks, not_tw>>

TwNext == TweakNewCase \/ ApplyTweak \/ TweakCheck

(***************************************************************************)
(* The batch verifier, as in tests/batch.rs: items are queued, then the    *)
(* batch is verified once.                                                 *)
(***************************************************************************)
BatchMessages == {<<>>, <<1>>}

BatchKeys == 1..2

\* A (vk_bytes, sig, msg) tuple signed by sk.
SignedItem(T, sk, msg) ==
    [vk_bytes |-> VerificationKeyFrom(T, sk).bytes,
     sig |-> SigningKeySign(T, sk, msg, 0),
     msg |-> msg]

\* A tuple whose key is sk times the basepoint plus a point of order 8,
\* signed by sk.
TorsionKeyItem(T, sk, msg) ==
    LET P == basepoint(T)
        vk_bytes == PointBytesTable[PAdd(PMul(P, sk), L)]
        r == 1
        r_bytes == PointBytesTable[PMul(P, r)]
        c == Challenge(r_bytes, vk_bytes, msg)
    IN [vk_bytes |-> vk_bytes,
        sig |-> [r_bytes |-> r_bytes, s_bytes |-> ScalarToBytes(SignScalar(r, c, sk))],
        msg |-> msg]

\* Tuples made from a signed one by changing one part.
TamperedItems(T) ==
    LET good == SignedItem(T, 1, <<>>)
        s == ScalarFromBytes(good.sig.s_bytes).val
    IN { [good EXCEPT !.sig.s_bytes = ScalarToBytes(SAdd(s, 1))],
         [good EXCEPT !.sig.r_bytes[1] = (@ + 1) % 256],
         [good EXCEPT !.sig.s_bytes[1] = L],
         [good EXCEPT !.vk_bytes[1] = (@ + 1) % 256],
         [good EXCEPT !.msg = <<1>>],
         SignedItem(T, 0, <<>>) }

BatchItems(T) ==
    {SignedItem(T, sk, msg) : sk \in BatchKeys, msg \in BatchMessages}
      \cup {TorsionKeyItem(T, 1, <<>>)} \cup TamperedItems(T)

\* The orders in which a HashMap with the keys S can be iterated.
KeyOrders(S) ==
    {o \in [1..Cardinality(S) -> S] : \A i, j \in DOMAIN o : i # j => o[i] # o[j]}

BInit ==
    /\ b_phase = "start"
    /\ b_T = "SpendAuth"
    /\ b_verifier = VerifierDefault
    /\ b_items = <<>>
    /\ b_order = <<>>
    /\ b_zs = <<>>
    /\ b_result = None

\* Verifier::<T>::new()
VerifierNew ==
    /\ b_phase = "start"
    /\ \E T \in SigTypes : b_T' = T
    /\ b_verifier' = VerifierDefault
    /\ b_phase' = "open"
    /\ UNCHANGED <<b_items, b_order, b_zs, b_result, not_b>>

\* batch.queue((vk_bytes, sig, msg))
Queue ==
    /\ b_phase = "open"
    /\ Len(b_items) < MaxBatch
    /\ \E item \in BatchItems(b_T) :
         /\ b_verifier' = queue(b_verifier, ItemFrom(item.vk_bytes, item.sig, item.msg))
         /\ b_items' = Append(b_items, item)
    /\ UNCHANGED <<b_phase, b_T, b_order, b_zs, b_result, not_b>>

\* batch.verify(rng)
BatchVerify ==
    /\ b_phase = "open"
    /\ \E order \in KeyOrders(DOMAIN b_verifier.signatures) :
       \E zs \in [1..b_verifier.batch_size -> Weights] :
         /\ b_order' = order
         /\ b_zs' = zs
         /\ b_result' = verify(b_T, b_verifier, order, zs)
    /\ b_phase' = "verified"
    /\ UNCHANGED <<b_T, b_verifier, b_items, not_b>>

BNext == VerifierNew \/ Queue \/ BatchVerify

(***************************************************************************)
(* The aggregator's side of the signing protocol, frost/aggregator.rs.     *)
(***************************************************************************)
\* aggregator::begin_sign: unimplemented!().
aggregator_begin_sign(participants) == Panic("not implemented")

\* The lists of at most MaxSigners indices out of 0..MaxSigners + 1.
ParticipantLists ==
    UNION {[1..len -> 0..(MaxSigners + 1)] : len \in 0..MaxSigners}

AgInit ==
    /\ ag_phase = "start"
    /\ ag_numsigners = 0
    /\ ag_threshold = 0
    /\ ag_participants = <<>>
    /\ ag_session = FALSE
    /\ ag_result = None

\* The key the aggregator works for: n signers 1..n, threshold t.
AggregatorKey ==
    /\ ag_phase = "start"
    /\ \E n \in 1..MaxSigners : \E t \in 1..n :
         /\ ag_numsigners' = n
         /\ ag_threshold' = t
    /\ ag_phase' = "idle"
    /\ UNCHANGED <<ag_participants, ag_session, ag_result, not_ag>>

\* aggregator::begin_sign(participants): a session exists when it returns.
AggregatorBeginSign ==
    /\ ag_phase = "idle"
    /\ \E participants \in ParticipantLists :
         LET r == aggregator_begin_sign(participants)
         IN /\ ag_participants' = participants
            /\ ag_result' = r
            /\ ag_session' = r.ok
    /\ ag_phase' = "called"
    /\ UNCHANGED <<ag_numsigners, ag_threshold, not_ag>>

AgNext == AggregatorKey \/ AggregatorBeginSign

(***************************************************************************)
(* A message is built, then validated or sent through serialization, as    *)
(* in messages/tests.rs and messages/tests/prop.rs.                        *)
(***************************************************************************)
ParticipantIds ==
    {Signer(id) : id \in {0, 1, MAX_SIGNER_PARTICIPANT_ID, MAX_SIGNERS}}
      \cup {Dealer, Aggregator}

Headers ==
    [version : 0..MaxVersion, sender : ParticipantIds, receiver : ParticipantIds]

CommitmentCounts == {0, 1, MIN_SIGNERS, MAX_SIGNERS, MAX_SIGNERS + 1}

MessageLens ==
    {0} \cup ((ZCASH_MAX_PROTOCOL_MESSAGE_LEN - 1)..(ZCASH_MAX_PROTOCOL_MESSAGE_LEN + MaxOverLen))

\* Commitment([u8; 32]) of a point.
CommitmentOf(p) == PointBytesTable[p]

Payloads ==
    {[kind |-> "SharePackage",
      group_public |-> VerificationKeyFrom("SpendAuth", 1).bytes,
      secret_share |-> ScalarToBytes(1),
      share_commitment |-> Collection(n, CommitmentOf(SpendAuthBasepoint))]
       : n \in CommitmentCounts}
    \cup {[kind |-> "SigningCommitments",
           hiding |-> CommitmentOf(SpendAuthBasepoint),
           binding |-> CommitmentOf(PDouble(SpendAuthBasepoint))]}
    \cup {[kind |-> "SigningPackage",
           signing_commitments |->
             Collection(n, [hiding |-> CommitmentOf(SpendAuthBasepoint),
                            binding |-> CommitmentOf(PDouble(SpendAuthBasepoint))]),
           message |-> Collection(len, 0)]
            : n \in CommitmentCounts, len \in MessageLens}
    \cup {[kind |-> "SignatureShare", signature |-> ScalarToBytes(1)]}
    \cup {[kind |-> "AggregateSignature",
           group_commitment |-> CommitmentOf(SpendAuthBasepoint),
           schnorr_signature |-> ScalarToBytes(1)]}

MsInit ==
    /\ ms_phase = "start"
    /\ ms_message = None
    /\ ms_serialized = None
    /\ ms_op = NoOp

\* Message { header, payload }
BuildMessage ==
    /\ ms_phase = "start"
    /\ \E header \in Headers, payload \in Payloads :
         ms_message' = [header |-> header, payload |-> payload]
    /\ ms_phase' = "built"
    /\ UNCHANGED <<ms_serialized, ms_op, not_ms>>

\* Validate::validate(&header)
ValidateHeader ==
    /\ ms_phase = "built"
    /\ ms_op' = [kind |-> "validate_header", arg |-> <<>>,
                 result |-> HeaderValidate(ms_message.header)]
    /\ ms_phase' = "done"
    /\ UNCHANGED <<ms_message, ms_serialized, not_ms>>

\* Validate::validate(&message)
ValidateMessage ==
    /\ ms_phase = "built"
    /\ ms_op' = [kind |-> "validate_message", arg |-> <<>>,
                 result |-> MessageValidate(ms_message)]
    /\ ms_phase' = "done"
    /\ UNCHANGED <<ms_message, ms_serialized, not_ms>>

\* Validate::validate(&payload)
ValidatePayload ==
    /\ ms_phase = "built"
    /\ ms_op' = [kind |-> "validate_payload", arg |-> <<>>,
                 result |-> PayloadValidate(ms_message.payload)]
    /\ ms_phase' = "done"
    /\ UNCHANGED <<ms_message, ms_serialized, not_ms>>

\* bincode::serialize(&message)
Serialize ==
    /\ ms_phase = "built"
    /\ ms_serialized' = SerializeMessage(ms_message)
    /\ ms_phase' = "serialized"
    /\ UNCHANGED <<ms_message, ms_op, not_ms>>

\* bincode::deserialize(serialized)
Deserialize ==
    /\ ms_phase = "serialized"
    /\ ms_op' = [kind |-> "deserialize", arg |-> <<>>,
                 result |-> Ok(DeserializeMessage(ms_serialized))]
    /\ ms_phase' = "done"
    /\ UNCHANGED <<ms_message, ms_serialized, not_ms>>

\* The unsigned integers a self-describing format (JSON) hands to
\* ParticipantIdVisitor::visit_u64: every u64, here those around the u8
\* range and its multiples.
VisitedValues ==
    {0, 1, MAX_SIGNER_PARTICIPANT_ID, DEALER_PARTICIPANT_ID, AGGREGATOR_PARTICIPANT_ID,
     U8Max + 1, U8Max + 2, 2 * U8Max - 1, 2 * U8Max, 2 * U8Max + 1, 2 * U8Max + 2,
     2147483647}

\* ParticipantIdVisitor.visit_u64(value), as a deserializer drives it.
VisitU64 ==
    /\ ms_phase = "start"
    /\ \E value \in VisitedValues :
         ms_op' = [kind |-> "visit_u64", arg |-> <<value>>,
                   result |-> Ok(DeserializeParticipantId(value))]
    /\ ms_phase' = "done"
    /\ UNCHANGED <<ms_message, ms_serialized, not_ms>>

MsNext ==
    \/ BuildMessage
    \/ ValidateHeader
    \/ ValidateMessage
    \/ ValidatePayload
    \/ Serialize
    \/ Deserialize
    \/ VisitU64


(***************************************************************************)
(* A coordinator on an untrusted network.  The commitments of a package    *)
(* are listed as they arrive, so an index can be listed twice and in any   *)
(* order; the signature shares handed to aggregate are what arrived: the   *)
(* shares the participants computed, altered ones, and shares carrying an  *)
(* index that is not in the package or not in the key package.             *)
(***************************************************************************)
CoInit ==
    /\ co_phase = "start"
    /\ co_keygen = None
    /\ co_nonces = <<>>
    /\ co_package = [message |-> <<>>, signing_commitments |-> <<>>]
    /\ co_shares = <<>>
    /\ co_result = None

\* The nonces of the participants after keygen_with_dealer(n, threshold)
\* and preprocess(1, i, rng) for i = 1..n on one rng.
NoncesAfterKeygen(num_signers, threshold, seed) ==
    [i \in 1..num_signers |->
       SigningNoncesNew([seed |-> seed, pos |-> threshold + 2 * (i - 1)])]

\* keygen_with_dealer, then preprocess by every participant.
CoKeygen ==
    /\ co_phase = "start"
    /\ \E seed \in Seeds, num_signers \in 2..MaxSigners :
         \E threshold \in 2..num_signers :
           /\ co_keygen' = keygen_with_dealer(num_signers, threshold, seed)
           /\ co_nonces' = NoncesAfterKeygen(num_signers, threshold, seed)
    /\ co_phase' = "keyed"
    /\ UNCHANGED <<co_package, co_shares, co_result, not_co>>

\* The lists of participant indices of up to MaxListed commitments.
IndexLists(num_signers) ==
    UNION {[1..len -> 1..num_signers] : len \in 1..MaxListed}

\* SigningPackage { message, signing_commitments } of the commitments of
\* the listed participants, in the order of the list.
SigningPackageOf(message, indices, nonces) ==
    [message |-> message,
     signing_commitments |->
       [k \in 1..Len(indices) |-> SigningCommitmentsFrom(indices[k], nonces[indices[k]])]]

CoMessages == {<<>>, <<1>>}

\* The coordinator builds the signing package.
CoPackage ==
    /\ co_phase = "keyed"
    /\ \E message \in CoMessages, indices \in IndexLists(Len(co_nonces)) :
         co_package' = SigningPackageOf(message, indices, co_nonces)
    /\ co_phase' = "packaged"
    /\ UNCHANGED <<co_keygen, co_nonces, co_shares, co_result, not_co>>

\* The signature shares that can arrive: for each participant the share
\* sign gives it, that share with another scalar, and for each index up to
\* one past the participants a share of scalar 0.
ArrivingShares ==
    LET n == Len(co_nonces)
        signed == [i \in 1..n |->
                     sign(co_package, co_nonces[i], co_keygen.val.sharepackages[i])]
        honest == {signed[i].val : i \in {j \in 1..n : signed[j].ok}}
    IN honest
       \cup {[sh EXCEPT !.signature = SAdd(@, 1)] : sh \in honest}
       \cup {[index |-> i, signature |-> 0] : i \in 1..(n + 1)}

\* aggregate(&signing_package, &signing_shares, &pubkeys)
CoAggregate ==
    /\ co_phase = "packaged"
    /\ \E len \in 0..MaxListed :
         \E signing_shares \in [1..len -> ArrivingShares] :
           /\ co_shares' = signing_shares
           /\ co_result' = aggregate(co_package, signing_shares, co_keygen.val.pubkeys)
    /\ co_phase' = "aggregated"
    /\ UNCHANGED <<co_keygen, co_nonces, co_package, not_co>>

CoNext == CoKeygen \/ CoPackage \/ CoAggregate


(***************************************************************************)
(* A participant and the packages it is asked to sign.  The participant    *)
(* holds the nonces of one preprocess(1, index, rng) and hands them to     *)
(* sign by value; a package lists commitments in the order its sender      *)
(* chose, possibly one index twice.                                        *)
(***************************************************************************)
PtInit ==
    /\ pt_phase = "start"
    /\ pt_keygen = None
    /\ pt_index = 0
    /\ pt_commitments = <<>>
    /\ pt_nonces = Nothing
    /\ pt_calls = <<>>

\* keygen_with_dealer, then preprocess by every participant.
PtKeygen ==
    /\ pt_phase = "start"
    /\ \E seed \in Seeds, num_signers \in 2..MaxSigners :
         \E threshold \in 2..num_signers, index \in 1..num_signers :
           /\ pt_keygen' = keygen_with_dealer(num_signers, threshold, seed)
           /\ pt_commitments' = NoncesAfterKeygen(num_signers, threshold, seed)
           /\ pt_nonces' = Some(NoncesAfterKeygen(num_signers, threshold, seed)[index])
           /\ pt_index' = index
    /\ pt_phase' = "keyed"
    /\ UNCHANGED <<pt_calls, not_pt>>

\* A SigningNonces handed by value to a function that keeps it is gone
\* from the caller.
SigningNoncesAfterUse_moved(nonces) == Nothing

\* SigningNonces is Clone and Copy: handing it by value to sign leaves the
\* caller with its copy.
SigningNoncesAfterUse(nonces) == Some(nonces)

\* sign(&signing_package, nonces, &share_package) on a package received.
PtSign ==
    /\ pt_phase = "keyed"
    /\ Len(pt_calls) < MaxCalls
    /\ pt_nonces # Nothing
    /\ \E message \in CoMessages, indices \in IndexLists(Len(pt_commitments)) :
         LET signing_package == SigningPackageOf(message, indices, pt_commitments)
         IN pt_calls' =
              Append(pt_calls,
                     [signing_package |-> signing_package,
                      participant_nonces |-> pt_nonces.val,
                      result |-> sign(signing_package, pt_nonces.val,
                                      pt_keygen.val.sharepackages[pt_index])])
    /\ pt_nonces' = SigningNoncesAfterUse(pt_nonces.val)
    /\ UNCHANGED <<pt_phase, pt_keygen, pt_index, pt_commitments, not_pt>>

PtNext == PtKeygen \/ PtSign


(***************************************************************************)
(* The end-to-end run, tests/frost.rs.  Every task is a sequence of steps  *)
(* between two awaits; a step is enabled when the channel it waits on has  *)
(* something for it.  A task that panics ends, and what it held is         *)
(* dropped.  The session functions are those of frost/keygen.rs,           *)
(* frost/aggregator.rs, frost/signer.rs and frost/share.rs.                *)
(***************************************************************************)
\* keygen::begin_keygen: unimplemented!().
keygen_begin_keygen(config) == Panic("not implemented")

\* keygen::AwaitingCommitments::recv: unimplemented!().
keygen_AwaitingCommitments_recv(commitments) == Panic("not implemented")

\* keygen::AwaitingShares::recv: unimplemented!().
keygen_AwaitingShares_recv(shares) == Panic("not implemented")

\* impl From<&SecretShare> for VerificationKey<SpendAuth>: unimplemented!().
VerificationKeyFromSecretShare(share) == Panic("not implemented")

\* aggregator::AwaitingCommitmentShares::recv: unimplemented!().
aggregator_AwaitingCommitmentShares_recv(shares) == Panic("not implemented")

\* aggregator::AwaitingResponseShares::recv: unimplemented!().
aggregator_AwaitingResponseShares_recv(responses) == Panic("not implemented")

\* SecretShare::begin_sign: the dummy session and commitment share.
signer_begin_sign(msg, participants) == Ok("CommitmentShare")

\* signer::AwaitingCommitment::recv: unimplemented!().
signer_AwaitingCommitment_recv(commitment) == Panic("not implemented")

\* The messages of the requests: b"AAA", b"BBB", b"CCC".
RequestMessage(k) == <<64 + k, 64 + k, 64 + k>>

RtInit ==
    /\ rt_cfg = [num_shares |-> 0, threshold |-> 0]
    /\ rt_main = [pc |-> "setup", request |-> 0]
    /\ rt_agg = [pc |-> "unspawned", request |-> 0]
    /\ rt_party = <<>>
    /\ rt_seen = <<>>
    /\ rt_chan = [started |-> FALSE,
                  keygen_commitments |-> 0,
                  keygen_shares |-> 0,
                  pubkeys |-> <<>>,
                  requests |-> <<>>,
                  request_open |-> TRUE,
                  message |-> 0,
                  commitment_shares |-> 0,
                  commitment |-> 0,
                  response_shares |-> 0]
    /\ rt_results = [k \in 1..NumRequests |-> [state |-> "unsent"]]

TaskEnded(pc) == pc \in {"done", "panicked"}

\* The aggregator task holds the receivers of the requests and of the
\* shares and the senders of the two watch channels.
AggregatorAlive == ~TaskEnded(rt_agg.pc)

\* A step of the test's own task (keygen_and_sign).
MainStep ==
    /\ LET pc == rt_main.pc
       IN CASE pc = "setup" ->
                 \* the channels are made and the tasks spawned
                 /\ \E num_shares \in 1..MaxSigners :
                      \E threshold \in 1..num_shares :
                        /\ rt_cfg' = [num_shares |-> num_shares, threshold |-> threshold]
                        /\ rt_party' = [p \in 0..(num_shares - 1) |-> "await_start"]
                        /\ rt_seen' = [p \in 0..(num_shares - 1) |->
                                         [message |-> 0, commitment |-> 0]]
                 /\ rt_agg' = [pc |-> "recv_request", request |-> 0]
                 /\ rt_main' = [rt_main EXCEPT !.pc = "spawned"]
                 /\ UNCHANGED <<rt_chan, rt_results>>
            [] pc = "spawned" ->
                 \* start_tx.broadcast(())
                 /\ rt_chan' = [rt_chan EXCEPT !.started = TRUE]
                 /\ rt_main' = [rt_main EXCEPT !.pc = "collect_pubkeys"]
                 /\ UNCHANGED <<rt_cfg, rt_agg, rt_party, rt_seen, rt_results>>
            [] pc = "collect_pubkeys" ->
                 \* pubkey_rx.take(num_shares).collect().await; the test
                 \* keeps pubkey_tx, so the stream ends only by the count
                 /\ Len(rt_chan.pubkeys) >= rt_cfg.num_shares
                 /\ rt_main' =
                      IF \A i \in 1..rt_cfg.num_shares : rt_chan.pubkeys[i] = rt_chan.pubkeys[1]
                      THEN [pc |-> "send_request", request |-> 1]
                      ELSE [rt_main EXCEPT !.pc = "panicked"]
                 /\ UNCHANGED <<rt_cfg, rt_agg, rt_party, rt_seen, rt_chan, rt_results>>
            [] pc = "send_request" ->
                 IF rt_main.request > NumRequests
                 THEN \* drop(request_tx)
                      /\ rt_chan' = [rt_chan EXCEPT !.request_open = FALSE]
                      /\ rt_main' = [rt_main EXCEPT !.pc = "join"]
                      /\ UNCHANGED <<rt_cfg, rt_agg, rt_party, rt_seen, rt_results>>
                 ELSE IF ~AggregatorAlive
                 THEN \* .expect("sending sign request should succeed")
                      /\ rt_main' = [rt_main EXCEPT !.pc = "panicked"]
                      /\ rt_chan' = [rt_chan EXCEPT !.request_open = FALSE]
                      /\ UNCHANGED <<rt_cfg, rt_agg, rt_party, rt_seen, rt_results>>
                 ELSE /\ Len(rt_chan.requests) < 1
                      /\ rt_chan' = [rt_chan EXCEPT !.requests = Append(@, rt_main.request)]
                      /\ rt_results' = [rt_results EXCEPT ![rt_main.request] =
                                          [state |-> "pending"]]
                      /\ rt_main' = [rt_main EXCEPT !.pc = "await_result"]
                      /\ UNCHANGED <<rt_cfg, rt_agg, rt_party, rt_seen>>
            [] pc = "await_result" ->
                 \* match rx.await
                 /\ rt_results[rt_main.request].state \in {"sent", "dropped"}
                 /\ IF /\ rt_results[rt_main.request].state = "sent"
                       /\ rt_results[rt_main.request].value.ok
                       /\ Verify("SpendAuth", rt_chan.pubkeys[1],
                                 RequestMessage(rt_main.request),
                                 rt_results[rt_main.request].value.val).ok
                    THEN /\ rt_main' = [rt_main EXCEPT !.pc = "send_request",
                                                       !.request = @ + 1]
                         /\ UNCHANGED rt_chan
                    ELSE /\ rt_main' = [rt_main EXCEPT !.pc = "panicked"]
                         /\ rt_chan' = [rt_chan EXCEPT !.request_open = FALSE]
                 /\ UNCHANGED <<rt_cfg, rt_agg, rt_party, rt_seen, rt_results>>
            [] pc = "join" ->
                 \* for handle in task_handles: assert!(handle.await.is_ok())
                 /\ TaskEnded(rt_agg.pc)
                 /\ \A p \in DOMAIN rt_party : TaskEnded(rt_party[p])
                 /\ rt_main' =
                      [rt_main EXCEPT !.pc =
                         IF rt_agg.pc = "done" /\ \A p \in DOMAIN rt_party : rt_party[p] = "done"
                         THEN "passed" ELSE "panicked"]
                 /\ UNCHANGED <<rt_cfg, rt_agg, rt_party, rt_seen, rt_chan, rt_results>>
            [] OTHER -> FALSE
    /\ UNCHANGED not_rt

\* The aggregator task ends by a panic: the oneshot sender of the request
\* it serves is dropped with it.
AggregatorPanics ==
    /\ rt_agg' = [rt_agg EXCEPT !.pc = "panicked"]
    /\ rt_results' = IF rt_agg.request = 0 THEN rt_results
                     ELSE [rt_results EXCEPT ![rt_agg.request] = [state |-> "dropped"]]

\* A step of run_aggregator.
AggregatorStep ==
    /\ LET pc == rt_agg.pc
           participants == [i \in 1..rt_cfg.threshold |-> i - 1]
       IN CASE pc = "recv_request" ->
                 \* while let Some((msg, response)) = request_rx.next().await
                 IF rt_chan.requests # <<>>
                 THEN LET request == Head(rt_chan.requests)
                          state == aggregator_begin_sign(participants)
                      IN /\ IF state.ok
                            THEN /\ rt_chan' = [rt_chan EXCEPT !.requests = Tail(@),
                                                               !.message = @ + 1]
                                 /\ rt_agg' = [pc |-> "collect_commitments",
                                               request |-> request]
                                 /\ UNCHANGED rt_results
                            ELSE /\ rt_chan' = [rt_chan EXCEPT !.requests = Tail(@)]
                                 /\ rt_agg' = [pc |-> "panicked", request |-> request]
                                 /\ rt_results' = [rt_results EXCEPT ![request] =
                                                     [state |-> "dropped"]]
                 ELSE /\ ~rt_chan.request_open
                      /\ rt_agg' = [rt_agg EXCEPT !.pc = "done"]
                      /\ UNCHANGED <<rt_chan, rt_results>>
            [] pc = "collect_commitments" ->
                 \* (&mut commitment_share_rx).take(threshold).collect().await
                 /\ rt_chan.commitment_shares >= rt_cfg.threshold
                 /\ LET r == aggregator_AwaitingCommitmentShares_recv(rt_cfg.threshold)
                    IN IF r.ok
                       THEN /\ rt_chan' = [rt_chan EXCEPT
                                             !.commitment_shares = @ - rt_cfg.threshold,
                                             !.commitment = @ + 1]
                            /\ rt_agg' = [rt_agg EXCEPT !.pc = "collect_responses"]
                            /\ UNCHANGED rt_results
                       ELSE /\ AggregatorPanics
                            /\ UNCHANGED rt_chan
            [] pc = "collect_responses" ->
                 \* (&mut response_share_rx).take(threshold).collect().await
                 /\ rt_chan.response_shares >= rt_cfg.threshold
                 /\ LET sig_result == aggregator_AwaitingResponseShares_recv(rt_cfg.threshold)
                    IN IF sig_result.err # "panic"
                       THEN /\ rt_chan' = [rt_chan EXCEPT
                                             !.response_shares = @ - rt_cfg.threshold]
                            /\ rt_results' = [rt_results EXCEPT ![rt_agg.request] =
                                                [state |-> "sent", value |-> sig_result]]
                            /\ rt_agg' = [pc |-> "recv_request", request |-> 0]
                       ELSE /\ AggregatorPanics
                            /\ UNCHANGED rt_chan
            [] OTHER -> FALSE
    /\ UNCHANGED <<rt_cfg, rt_main, rt_party, rt_seen, not_rt>>

\* A step of run_party for the party of share_id p.
PartyStep(p) ==
    /\ p \in DOMAIN rt_party
    /\ LET pc == rt_party[p]
           goto(next) == rt_party' = [rt_party EXCEPT ![p] = next]
           participants == [i \in 1..rt_cfg.threshold |-> i - 1]
       IN CASE pc = "await_start" ->
                 \* let _ = start_rx.recv().await
                 /\ rt_chan.started
                 /\ goto("begin_keygen")
                 /\ UNCHANGED <<rt_chan, rt_seen>>
            [] pc = "begin_keygen" ->
                 /\ IF keygen_begin_keygen(rt_cfg).ok
                    THEN /\ rt_chan' = [rt_chan EXCEPT !.keygen_commitments = @ + 1]
                         /\ goto("collect_keygen_commitments")
                    ELSE /\ goto("panicked")
                         /\ UNCHANGED rt_chan
                 /\ UNCHANGED rt_seen
            [] pc = "collect_keygen_commitments" ->
                 /\ rt_chan.keygen_commitments >= rt_cfg.num_shares
                 /\ IF keygen_AwaitingCommitments_recv(rt_cfg.num_shares).ok
                    THEN /\ rt_chan' = [rt_chan EXCEPT !.keygen_shares = @ + 1]
                         /\ goto("collect_keygen_shares")
                    ELSE /\ goto("panicked")
                         /\ UNCHANGED rt_chan
                 /\ UNCHANGED rt_seen
            [] pc = "collect_keygen_shares" ->
                 /\ rt_chan.keygen_shares >= rt_cfg.num_shares
                 /\ LET share == keygen_AwaitingShares_recv(rt_cfg.num_shares)
                        pubkey == VerificationKeyFromSecretShare(share)
                    IN IF share.ok /\ pubkey.ok
                       THEN /\ rt_chan' = [rt_chan EXCEPT !.pubkeys = Append(@, pubkey.val)]
                            /\ goto("recv_message")
                       ELSE /\ goto("panicked")
                            /\ UNCHANGED rt_chan
                 /\ UNCHANGED rt_seen
            [] pc = "recv_message" ->
                 \* while let Some(Some((msg, participants))) =
                 \*     signing_message_rx.next().await
                 IF rt_chan.message > rt_seen[p].message
                 THEN /\ rt_seen' = [rt_seen EXCEPT ![p].message = rt_chan.message]
                      /\ IF \A i \in DOMAIN participants : participants[i] # p
                         THEN UNCHANGED <<rt_party, rt_chan>>
                         ELSE IF signer_begin_sign(rt_chan.message, participants).ok
                                   /\ AggregatorAlive
                         THEN /\ rt_chan' = [rt_chan EXCEPT !.commitment_shares = @ + 1]
                              /\ goto("recv_commitment")
                         ELSE /\ goto("panicked")
                              /\ UNCHANGED rt_chan
                 ELSE /\ ~AggregatorAlive
                      /\ goto("done")
                      /\ UNCHANGED <<rt_chan, rt_seen>>
            [] pc = "recv_commitment" ->
                 \* signing_commitment_rx.next().await.expect(..).expect(..)
                 IF rt_chan.commitment > rt_seen[p].commitment
                 THEN /\ rt_seen' = [rt_seen EXCEPT ![p].commitment = rt_chan.commitment]
                      /\ IF signer_AwaitingCommitment_recv(rt_chan.commitment).ok
                              /\ AggregatorAlive
                         THEN /\ rt_chan' = [rt_chan EXCEPT !.response_shares = @ + 1]
                              /\ goto("recv_message")
                         ELSE /\ goto("panicked")
                              /\ UNCHANGED rt_chan
                 ELSE /\ ~AggregatorAlive
                      /\ goto("panicked")
                      /\ UNCHANGED <<rt_chan, rt_seen>>
            [] OTHER -> FALSE
    /\ UNCHANGED <<rt_cfg, rt_main, rt_agg, rt_results, not_rt>>

\* The tasks the runtime holds: tokio::spawn(run_aggregator(..)), one
\* tokio::spawn(run_party(..)) per share_id, and the test itself.
Tasks ==
    {[kind |-> "main", share_id |-> 0], [kind |-> "aggregator", share_id |-> 0]}
      \cup {[kind |-> "party", share_id |-> p] : p \in 0..(MaxSigners - 1)}

\* The runtime polls a task: the task runs up to its next await.
Poll(task) ==
    CASE task.kind = "main" -> MainStep
      [] task.kind = "aggregator" -> AggregatorStep
      [] OTHER -> PartyStep(task.share_id)

RtNext == \E task \in Tasks : Poll(task)


(***************************************************************************)
(* The state values of the aggregator's session, frost/aggregator.rs.      *)
(* AwaitingCommitmentShares and AwaitingResponseShares are public structs  *)
(* without fields and without Clone or Copy: a value is made by a struct   *)
(* expression or returned by a function of the module, and is moved into   *)
(* recv, which takes self by value.  A call that panics is caught by the   *)
(* task that made it; what it took by value is dropped.                    *)
(***************************************************************************)
\* The participants lists and the shares handed to the session functions.
SessionParticipants == {<<>>, <<1>>, <<1, 2>>}

SessionShares == {<<>>, <<1>>}

SeInit ==
    /\ se_states = <<>>
    /\ se_calls = <<>>
    /\ se_signatures = <<>>

StateValue(kind, origin) == [kind |-> kind, origin |-> origin, moved |-> FALSE]

\* AwaitingCommitmentShares {}: a struct expression of the public struct.
NewAwaitingCommitmentShares ==
    /\ Len(se_states) < MaxSessions
    /\ se_states' = Append(se_states,
                           StateValue("AwaitingCommitmentShares", "struct expression"))
    /\ UNCHANGED <<se_calls, se_signatures, not_se>>

\* AwaitingResponseShares {}: a struct expression of the public struct.
NewAwaitingResponseShares ==
    /\ Len(se_states) < MaxSessions
    /\ se_states' = Append(se_states,
                           StateValue("AwaitingResponseShares", "struct expression"))
    /\ UNCHANGED <<se_calls, se_signatures, not_se>>

\* aggregator::begin_sign(participants): the state it returns, if it returns.
SessionBeginSign ==
    /\ Len(se_calls) < MaxCalls
    /\ Len(se_states) < MaxSessions
    /\ \E participants \in SessionParticipants :
         LET r == aggregator_begin_sign(participants)
         IN /\ se_calls' = Append(se_calls,
                                  [fn |-> "begin_sign", state |-> 0, result |-> r])
            /\ se_states' = IF r.ok
                            THEN Append(se_states,
                                        StateValue("AwaitingCommitmentShares", "begin_sign"))
                            ELSE se_states
    /\ UNCHANGED <<se_signatures, not_se>>

\* state.recv(shares) on an AwaitingCommitmentShares: self is moved into the
\* call, whatever the call returns.
AwaitingCommitmentSharesRecv ==
    /\ Len(se_calls) < MaxCalls
    /\ \E i \in DOMAIN se_states : \E shares \in SessionShares :
         /\ se_states[i].kind = "AwaitingCommitmentShares"
         /\ ~se_states[i].moved
         /\ LET r == aggregator_AwaitingCommitmentShares_recv(shares)
                taken == [se_states EXCEPT ![i].moved = TRUE]
            IN /\ se_calls' = Append(se_calls,
                                     [fn |-> "AwaitingCommitmentShares::recv",
                                      state |-> i, result |-> r])
               /\ se_states' = IF r.ok
                               THEN Append(taken,
                                           StateValue("AwaitingResponseShares",
                                                      "AwaitingCommitmentShares::recv"))
                               ELSE taken
    /\ UNCHANGED <<se_signatures, not_se>>

\* state.recv(responses) on an AwaitingResponseShares: self is moved into the
\* call, whatever the call returns.
AwaitingResponseSharesRecv ==
    /\ Len(se_calls) < MaxCalls
    /\ \E i \in DOMAIN se_states : \E responses \in SessionShares :
         /\ se_states[i].kind = "AwaitingResponseShares"
         /\ ~se_states[i].moved
         /\ LET r == aggregator_AwaitingResponseShares_recv(responses)
            IN /\ se_calls' = Append(se_calls,
                                     [fn |-> "AwaitingResponseShares::recv",
                                      state |-> i, result |-> r])
               /\ se_states' = [se_states EXCEPT ![i].moved = TRUE]
               /\ se_signatures' = IF r.ok
                                   THEN Append(se_signatures,
                                               [origin |-> "AwaitingResponseShares::recv",
                                                state |-> i])
                                   ELSE se_signatures
    /\ UNCHANGED not_se

SeNext ==
    \/ NewAwaitingCommitmentShares
    \/ NewAwaitingResponseShares
    \/ SessionBeginSign
    \/ AwaitingCommitmentSharesRecv
    \/ AwaitingResponseSharesRecv


(***************************************************************************)
(* The scalar multiplication helpers of batch.rs on scalars of the width   *)
(* of jubjub::Fr.  non_adjacent_form works on the 32 bytes of              *)
(* Scalar::to_bytes, so its inputs here are canonical encodings of the     *)
(* real field: little-endian integers below its order.                     *)
(***************************************************************************)
\* The order of jubjub::Fr, little-endian.
JubjubOrderBytes ==
    <<183, 44, 247, 214, 94, 14, 151, 208, 130, 16, 200, 204, 147, 32, 104, 166,
      0, 59, 52, 1, 1, 59, 103, 6, 169, 175, 51, 101, 234, 180, 125, 14>>

\* bytes, read as a little-endian integer from byte i down, is below the
\* order: the test of Scalar::from_bytes.
RECURSIVE BelowOrder(_, _)
BelowOrder(bytes, i) ==
    IF i = 0 THEN FALSE
    ELSE IF bytes[i] < JubjubOrderBytes[i] THEN TRUE
    ELSE IF bytes[i] > JubjubOrderBytes[i] THEN FALSE
    ELSE BelowOrder(bytes, i - 1)

\* Encodings with a chosen low byte, a chosen pair of bytes around the end
\* of the first u64, a chosen top byte and one value for the other bytes.
WideBytes(lo, fill, edge, top) ==
    [i \in 1..EncLen |->
       IF i = 1 THEN lo
       ELSE IF i = EncLen THEN top
       ELSE IF i \in {8, 9} THEN edge
       ELSE fill]

WideScalars ==
    {b \in {WideBytes(lo, fill, edge, top) :
              lo \in {0, 1, 2, 15, 16, 17, 31, 32, 167, 240, 255},
              fill \in {0, 85, 167, 255},
              edge \in {0, 31, 248, 255},
              top \in {0, 13, 14}}
            \cup {[JubjubOrderBytes EXCEPT ![1] = @ - 1], JubjubOrderBytes}
            \cup {ScalarToBytes(x) : x \in Scalars}
       : BelowOrder(b, EncLen)}

NfInit ==
    /\ nf_op = "none"
    /\ nf_input = <<>>
    /\ nf_output = <<>>

\* x.non_adjacent_form(5)
NonAdjacentForm ==
    /\ nf_op = "none"
    /\ \E bytes \in WideScalars :
         /\ nf_input' = bytes
         /\ nf_output' = NafOfBytes(bytes, 5)
    /\ nf_op' = "non_adjacent_form"
    /\ UNCHANGED not_nf

\* The scalars and the optional points handed to optional_multiscalar_mul.
MsmScalars ==
    {ScalarToBytes(0), ScalarToBytes(L - 1), WideBytes(31, 255, 255, 13),
     [JubjubOrderBytes EXCEPT ![1] = @ - 1]}

MsmPoints == {Nothing, Some(Identity), Some(1), Some(SpendAuthBasepoint)}

\* ExtendedPoint::optional_multiscalar_mul(scalars, points) on two lists of
\* one length.
MultiscalarMul ==
    /\ nf_op = "none"
    /\ \E n \in 0..MaxListed :
       \E scalar_bytes \in [1..n -> MsmScalars], points \in [1..n -> MsmPoints] :
         /\ nf_input' = [scalars |-> scalar_bytes, points |-> points]
         /\ nf_output' = MultiscalarMulOfBytes(scalar_bytes, points)
    /\ nf_op' = "optional_multiscalar_mul"
    /\ UNCHANGED not_nf

\* LookupTable5::<ExtendedNielsPoint>::from(&A)
LookupTable ==
    /\ nf_op = "none"
    /\ \E A \in Points :
         /\ nf_input' = A
         /\ nf_output' = LookupTable5From(A)
    /\ nf_op' = "LookupTable5::from"
    /\ UNCHANGED not_nf

NfNext == NonAdjacentForm \/ MultiscalarMul \/ LookupTable

Init == ShInit /\ FInit /\ SgInit /\ SInit /\ TwInit /\ BInit /\ AgInit /\ MsInit /\ CoInit /\ PtInit /\ RtInit /\ SeInit /\ NfInit

SpecCoordinator == Init /\ [][CoNext]_vars

SpecParticipant == Init /\ [][PtNext]_vars

SpecRun == Init /\ [][RtNext]_vars

\* The run under the scheduler of the runtime: a task that can take a step
\* is eventually run.
SpecRunFair ==
    /\ SpecRun
    /\ \A task \in Tasks : WF_vars(Poll(task))

SpecSession == Init /\ [][SeNext]_vars

SpecScalarMul == Init /\ [][NfNext]_vars

SpecMessages == Init /\ [][MsNext]_vars

SpecAggregator == Init /\ [][AgNext]_vars

SpecBatch == Init /\ [][BNext]_vars

SpecTweak == Init /\ [][TwNext]_vars

SpecSigner == Init /\ [][SgNext]_vars

SpecSig == Init /\ [][SNext]_vars

SpecShares == Init /\ [][ShNext]_vars

Spec == Init /\ [][FNext]_vars

(***************************************************************************)
(* C1: after a dealer key generation with 1 <= t <= n, when exactly t      *)
(* distinct participants ran preprocess once, the package lists exactly    *)
(* their commitments, each of them signed with its own nonces and share    *)
(* package and aggregate got exactly those t signature shares, aggregate   *)
(* returns Ok(sig) and sig passes single-signature verification of the     *)
(* package's message under the group public key.                           *)
(***************************************************************************)
C1_Session ==
    /\ f_phase = "done"
    /\ Len(f_package.signing_commitments) = f_threshold
    /\ SharesIndices = PackageIndices
    /\ Len(f_shares) = f_threshold

C1_FrostVerifies ==
    C1_Session =>
      /\ f_result.ok
      /\ Verify("SpendAuth", f_keygen.val.pubkeys.group_public,
                f_package.message, f_result.val) = Ok("unit")

C1_Witness ==
    /\ C1_Session
    /\ f_threshold >= 2
    /\ f_numsigners > f_threshold
    /\ f_shares[1].index # f_package.signing_commitments[1].index
    /\ f_package.message # <<>>
    /\ f_keygen.val.sharepackages[1].share.value # 0
    /\ f_result.ok

(***************************************************************************)
(* C2: each SecretShare has at most one in-progress signing session: while *)
(* an AwaitingCommitment got from begin_sign on a share is alive, a second *)
(* begin_sign on that share does not succeed, and the failed attempt       *)
(* leaves the first session and the share unchanged.                       *)
(***************************************************************************)
LiveSessions(ss) ==
    {k \in DOMAIN sg_sessions :
       sg_sessions[k].share = ss /\ sg_sessions[k].state = "live"}

C2_OneSessionStep ==
    /\ \A ss \in SecretShares : Cardinality(LiveSessions(ss)') <= 1
    /\ \A ss \in SecretShares :
         (LiveSessions(ss) # {} /\ sg_last'.op = "begin_sign" /\ sg_last'.share = ss)
           => /\ sg_last'.result = "rejected"
              /\ UNCHANGED <<sg_borrowers, sg_sessions>>

C2_OneSessionPerShare == [][C2_OneSessionStep]_vars

C2_Witness ==
    /\ sg_last.op = "begin_sign"
    /\ sg_last.result = "rejected"
    /\ LiveSessions(sg_last.share) # {}
    /\ \E k \in DOMAIN sg_sessions : sg_sessions[k].state # "live"

(***************************************************************************)
(* C3: a signer session always gives the share back: after recv consumed   *)
(* the session, or after the AwaitingCommitment was dropped without recv,  *)
(* the caller has the share Idle again, so that a following begin_sign on  *)
(* it succeeds; a session that was consumed or dropped is not used again.  *)
(***************************************************************************)
C3_SessionGivesShareBack ==
    /\ (sg_last.op \in {"recv", "drop"} /\ sg_last.result # "rejected")
         => /\ LiveSessions(sg_last.share) = {}
            /\ sg_borrowers[sg_last.share] = {}
            /\ ~sg_panicked
    /\ sg_last.op \in {"recv", "drop"}
         => sg_sessions[sg_last.session].state # "live"

(***************************************************************************)
(* C6 as stated: for every signing key of either family, every message and *)
(* every rng output, the signature made by sign verifies under the key     *)
(* derived from the signing key, after the round trips through bytes.      *)
(***************************************************************************)
C6_SignVerifies_AnyKey ==
    s_out.kind = "check" => s_out.passed

(***************************************************************************)
(* C6 amended: the same for every signing key other than zero.             *)
(***************************************************************************)
C6_SignVerifies ==
    (s_out.kind = "check" /\ s_sk # 0) => s_out.passed

C6_Witness ==
    /\ s_out.kind = "check"
    /\ s_sk > 1
    /\ s_T = "Binding"
    /\ s_case.msg = TestMessage
    /\ s_out.passed

(***************************************************************************)
(* C7: for every SpendAuth signing key sk and every randomizer r, the      *)
(* encoding of the verification key derived from sk.randomize(r) equals    *)
(* the encoding of VerificationKey::from(sk).randomize(r).                 *)
(***************************************************************************)
C7_RandomizationCommutes ==
    s_out.kind = "randomize" => s_out.pk_r_via_sk_rand = s_out.pk_r_via_pk_rand

C7_Witness ==
    /\ s_out.kind = "randomize"
    /\ s_out.r # 0
    /\ s_sk # 0
    /\ s_sk + s_out.r >= L
    /\ s_out.pk_r_via_pk_rand # s_case.pk_bytes

(***************************************************************************)
(* C8: starting from a valid (vk, msg, sig) case, after any sequence of    *)
(* tweaks with at least one ChangeMessage or ChangePubkey, decoding the    *)
(* key and verifying does not succeed; after a sequence of no-op tweaks    *)
(* only, it succeeds.                                                      *)
(***************************************************************************)
HasChange(tweaks) == \E k \in DOMAIN tweaks : tweaks[k] # "None"

C8_TweaksInvalidate ==
    (tw_phase = "checked" /\ SignatureCaseVerified(tw_T, tw_orig).ok)
      => (tw_verified <=> ~HasChange(tw_tweaks))

\* In the model a changed case verifies only when the tweaks led back to
\* the key bytes and the message the case started with.
C8_OnlyWhenRestored ==
    (tw_phase = "checked" /\ SignatureCaseVerified(tw_T, tw_orig).ok /\ tw_verified)
      => /\ tw_case.pk_bytes = tw_orig.pk_bytes
         /\ tw_case.msg = tw_orig.msg

(***************************************************************************)
(* C9: every share returned by generate_shares for a valid (n, t) passes   *)
(* verify_share: value_i * P is the sum over k of i^k * C_k.               *)
(***************************************************************************)
C9_SharesVerify ==
    sh_op.kind = "verify_share" => sh_op.result = Ok("unit")

\* A share of a polynomial of degree >= 1 with a non-zero leading
\* coefficient has been verified.
C9_Witness ==
    /\ sh_op.kind = "verify_share"
    /\ sh_threshold >= 2
    /\ sh_shares.val[1].commitment[sh_threshold] # Identity
    /\ sh_op.arg[1] >= 2

(***************************************************************************)
(* C10: Lagrange interpolation at 0 of any list of generated shares with   *)
(* at least t distinct receiver indices returns the secret.                *)
(***************************************************************************)
Range(s) == {s[i] : i \in DOMAIN s}

IsInjective(s) == \A i, j \in DOMAIN s : i # j => s[i] # s[j]

C10_Reconstructs ==
    (/\ sh_op.kind = "reconstruct_secret"
     /\ IsInjective(sh_op.arg)
     /\ Len(sh_op.arg) >= sh_threshold)
      => sh_op.result = Ok(sh_secret)

\* Exactly t of n > t shares, not the first t, of a polynomial of degree
\* >= 1 with non-zero secret, have been interpolated.
C10_Witness ==
    /\ sh_op.kind = "reconstruct_secret"
    /\ sh_threshold >= 2
    /\ sh_numshares > sh_threshold
    /\ Len(sh_op.arg) = sh_threshold
    /\ IsInjective(sh_op.arg)
    /\ sh_op.arg[1] > 1
    /\ sh_secret # 0
    /\ sh_shares.val[1].commitment[sh_threshold] # Identity

\* The full set of n shares has been interpolated.
C10_WitnessAll ==
    /\ sh_op.kind = "reconstruct_secret"
    /\ Len(sh_op.arg) = sh_numshares
    /\ sh_numshares > sh_threshold

(***************************************************************************)
(* Batch verification against single verification.                         *)
(***************************************************************************)
\* Single-signature verification of a queued tuple: decode the key, then
\* VerificationKey::verify.
ItemValid(T, item) ==
    LET vk == VerificationKeyTryFrom(item.vk_bytes)
    IN vk.ok /\ Verify(T, vk.val, item.msg, item.sig).ok

AllItemsValid == \A i \in DOMAIN b_items : ItemValid(b_T, b_items[i])

\* The indices of the items with the key `key`, in the order they were queued.
RECURSIVE IndicesOf(_, _, _)
IndicesOf(items, key, i) ==
    IF i > Len(items) THEN <<>>
    ELSE IF items[i].vk_bytes = key THEN <<i>> \o IndicesOf(items, key, i + 1)
    ELSE IndicesOf(items, key, i + 1)

\* The indices of the items in the order verify visits them.
RECURSIVE VisitOrder(_, _, _)
VisitOrder(items, order, k) ==
    IF k > Len(order) THEN <<>>
    ELSE IndicesOf(items, order[k], 1) \o VisitOrder(items, order, k + 1)

\* The weight z that verify drew for item i, when every item decodes.
WeightOf(i) ==
    LET visit == VisitOrder(b_items, b_order, 1)
    IN b_zs[CHOOSE k \in DOMAIN visit : visit[k] = i]

ItemDecodes(item) ==
    /\ VerificationKeyTryFrom(item.vk_bytes).ok
    /\ PointFromBytes(item.sig.r_bytes).some
    /\ ScalarFromBytes(item.sig.s_bytes).some

OnlyInvalid(i) ==
    /\ ~ItemValid(b_T, b_items[i])
    /\ \A j \in DOMAIN b_items : j # i => ItemValid(b_T, b_items[j])

\* C4: when every queued (vk_bytes, sig, msg) passes single-signature
\* verification, several of them under the same key included, verify returns
\* Ok(()) whatever weights the rng gives and whatever order the map is
\* iterated in.
C4_BatchCompleteness ==
    (b_phase = "verified" /\ AllItemsValid) => b_result = Ok("unit")

\* A verified batch of valid items, two of them distinct signatures under
\* one key, with non-zero weights.
C4_Witness ==
    /\ b_phase = "verified"
    /\ AllItemsValid
    /\ \E i, j \in DOMAIN b_items :
         /\ i # j
         /\ b_items[i].vk_bytes = b_items[j].vk_bytes
         /\ b_items[i].sig # b_items[j].sig
    /\ \A k \in DOMAIN b_zs : b_zs[k] # 0
    /\ b_result = Ok("unit")

C5_ZeroWeightPasses ==
    /\ b_phase = "verified"
    /\ \E i \in DOMAIN b_items : OnlyInvalid(i) /\ ItemDecodes(b_items[i]) /\ WeightOf(i) = 0
    /\ b_result = Ok("unit")

\* An item whose key bytes are not a verification key makes verify panic.
C5_BadKeyPanics ==
    /\ b_phase = "verified"
    /\ b_result = Panic("unwrap on Err(MalformedVerificationKey)")


(***************************************************************************)
(* The errors of dealer key generation.                                    *)
(***************************************************************************)
\* C11: keygen_with_dealer(n, t) returns the error ZeroThreshold when
\* t = 0, ZeroShares when t >= 1 and n = 0, ThresholdExceedShares when
\* t > n >= 1, each without shares, and Ok with n share packages when
\* 1 <= t <= n.
C11_KeygenBounds ==
    f_phase # "start" =>
        IF f_threshold = 0
        THEN ~f_keygen.ok /\ FrostErrorOf(f_keygen.err) = "ZeroThreshold"
        ELSE IF f_numsigners = 0
        THEN ~f_keygen.ok /\ FrostErrorOf(f_keygen.err) = "ZeroShares"
        ELSE IF f_threshold > f_numsigners
        THEN ~f_keygen.ok /\ FrostErrorOf(f_keygen.err) = "ThresholdExceedShares"
        ELSE f_keygen.ok /\ Len(f_keygen.val.sharepackages) = f_numsigners

\* keygen_with_dealer(0, 0) has failed with ZeroThreshold.
C11_Witness ==
    /\ f_phase = "failed"
    /\ f_threshold = 0
    /\ f_numsigners = 0
    /\ FrostErrorOf(f_keygen.err) = "ZeroThreshold"

\* keygen_with_dealer(n, t) with t > n >= 1 has failed.
C11_WitnessExceed ==
    /\ f_phase = "failed"
    /\ f_threshold > f_numsigners
    /\ f_numsigners >= 1
    /\ FrostErrorOf(f_keygen.err) = "ThresholdExceedShares"


(***************************************************************************)
(* The aggregator's begin_sign.                                            *)
(***************************************************************************)
\* The participants are exactly t distinct signers of the key.
ValidParticipants ==
    /\ Len(ag_participants) = ag_threshold
    /\ IsInjective(ag_participants)
    /\ \A k \in DOMAIN ag_participants : ag_participants[k] \in 1..ag_numsigners

\* C12: begin_sign of the aggregator fails with InvalidSigners, and starts
\* no session, when the participants are not exactly t distinct signers of
\* the key.
C12_InvalidSigners ==
    (ag_phase = "called" /\ ~ValidParticipants) =>
        ag_result = Err("InvalidSigners") /\ ~ag_session

\* What begin_sign does instead: it panics on every list of participants.
C12_BeginSignPanics ==
    ag_phase = "called" => ag_result = Panic("not implemented") /\ ~ag_session


(***************************************************************************)
(* Validation of message headers.                                          *)
(***************************************************************************)
\* C13: validating a header returns WrongVersion when its version is not
\* BASIC_FROST_SERIALIZATION, SameSenderAndReceiver when the version is
\* right and sender equals receiver, and Ok with the same header otherwise.
C13_HeaderValidation ==
    ms_op.kind = "validate_header" =>
        LET header == ms_message.header
        IN IF header.version # 0 THEN ms_op.result = Err("WrongVersion")
           ELSE IF header.sender = header.receiver
           THEN ms_op.result = Err("SameSenderAndReceiver")
           ELSE ms_op.result = Ok(header)

\* A header of version 0 from Signer(0) to Signer(0) has been rejected.
C13_Witness ==
    /\ ms_op.kind = "validate_header"
    /\ ms_message.header = [version |-> 0, sender |-> Signer(0), receiver |-> Signer(0)]
    /\ ms_op.result = Err("SameSenderAndReceiver")


(***************************************************************************)
(* Validation of the roles of sender and receiver.                         *)
(***************************************************************************)
IsSigner(p) == p.role = "Signer"

IsValidSigner(p) == p.role = "Signer" /\ p.id <= MAX_SIGNER_PARTICIPANT_ID

ValidatedMessageOf(kinds) ==
    ms_op.kind = "validate_message" /\ ms_message.payload.kind \in kinds

\* C14: validating a SharePackage message returns SenderMustBeDealer when
\* the sender is not the Dealer, ReceiverMustBeSigner when the sender is the
\* Dealer and the receiver is not a Signer, and Ok when the sender is the
\* Dealer and the receiver is Signer(k) with k <= 253.
C14_SharePackageRoles ==
    ValidatedMessageOf({"SharePackage"}) =>
        LET header == ms_message.header
        IN IF header.sender # Dealer THEN ms_op.result = Err("SenderMustBeDealer")
           ELSE IF ~IsSigner(header.receiver)
           THEN ms_op.result = Err("ReceiverMustBeSigner")
           ELSE IsValidSigner(header.receiver) => ms_op.result = Ok(ms_message)

\* What the code does with a SharePackage from the Dealer: it rejects
\* exactly the receivers Signer(k) with k <= 253.
C14_ReceiverCheckInverted ==
    (ValidatedMessageOf({"SharePackage"}) /\ ms_message.header.sender = Dealer) =>
        IF IsValidSigner(ms_message.header.receiver)
        THEN ms_op.result = Err("ReceiverMustBeSigner")
        ELSE ms_op.result = Ok(ms_message)

\* C15: validating a SigningCommitments or SignatureShare message returns
\* SenderMustBeSigner when the sender is not a Signer,
\* ReceiverMustBeAggergator when the sender is a Signer and the receiver is
\* not the Aggregator, and Ok when the sender is Signer(k) with k <= 253 and
\* the receiver is the Aggregator.
C15_SignerToAggregatorRoles ==
    ValidatedMessageOf({"SigningCommitments", "SignatureShare"}) =>
        LET header == ms_message.header
        IN IF ~IsSigner(header.sender) THEN ms_op.result = Err("SenderMustBeSigner")
           ELSE IF header.receiver # Aggregator
           THEN ms_op.result = Err("ReceiverMustBeAggergator")
           ELSE IsValidSigner(header.sender) => ms_op.result = Ok(ms_message)

\* What the code does with these messages: it rejects exactly the senders
\* Signer(k) with k <= 253 as not being signers.
C15_SenderCheckInverted ==
    ValidatedMessageOf({"SigningCommitments", "SignatureShare"}) =>
        LET header == ms_message.header
        IN IF IsValidSigner(header.sender) THEN ms_op.result = Err("SenderMustBeSigner")
           ELSE IF header.receiver # Aggregator
           THEN ms_op.result = Err("ReceiverMustBeAggergator")
           ELSE ms_op.result = Ok(ms_message)

\* C16: validating a SigningPackage or AggregateSignature message returns
\* SenderMustBeAggregator when the sender is not the Aggregator,
\* ReceiverMustBeSigner when the sender is the Aggregator and the receiver
\* is not a Signer, and Ok when the sender is the Aggregator and the
\* receiver is Signer(k) with k <= 253.
C16_AggregatorToSignerRoles ==
    ValidatedMessageOf({"SigningPackage", "AggregateSignature"}) =>
        LET header == ms_message.header
        IN IF header.sender # Aggregator
           THEN ms_op.result = Err("SenderMustBeAggregator")
           ELSE IF ~IsSigner(header.receiver)
           THEN ms_op.result = Err("ReceiverMustBeSigner")
           ELSE IsValidSigner(header.receiver) => ms_op.result = Ok(ms_message)

\* What the code does with these messages from the Aggregator: it rejects
\* exactly the receivers Signer(k) with k <= 253.
C16_ReceiverCheckInverted ==
    (ValidatedMessageOf({"SigningPackage", "AggregateSignature"})
       /\ ms_message.header.sender = Aggregator) =>
        IF IsValidSigner(ms_message.header.receiver)
        THEN ms_op.result = Err("ReceiverMustBeSigner")
        ELSE ms_op.result = Ok(ms_message)


(***************************************************************************)
(* Validation of payloads.                                                 *)
(***************************************************************************)
\* The number of commitments of a SharePackage or SigningPackage payload.
CommitmentCount(payload) ==
    IF payload.kind = "SharePackage" THEN payload.share_commitment.len
    ELSE payload.signing_commitments.len

MessageTooLong(payload) ==
    payload.kind = "SigningPackage" /\ payload.message.len > 2 * 1024 * 1024

\* C17: validating the payload of a SharePackage or a SigningPackage (whose
\* message is not too long) returns NotEnoughCommitments(MIN_SIGNERS) when
\* it has fewer than MIN_SIGNERS = 2 commitments and TooManyCommitments when
\* it has more than MAX_SIGNERS, so that it returns Ok only for a count in
\* the range.
C17_CommitmentCounts ==
    (/\ ms_op.kind = "validate_payload"
     /\ ms_message.payload.kind \in {"SharePackage", "SigningPackage"}
     /\ ~MessageTooLong(ms_message.payload)) =>
        LET n == CommitmentCount(ms_message.payload)
        IN IF n < 2
           THEN ~ms_op.result.ok /\ ms_op.result.err = "NotEnoughCommitments"
           ELSE IF n > MAX_SIGNERS
           THEN ~ms_op.result.ok /\ ms_op.result.err = "TooManyCommitments"
           ELSE TRUE

\* What the code does: the number of commitments never matters.
C17_CountsIgnored ==
    (ms_op.kind = "validate_payload" /\ ~MessageTooLong(ms_message.payload)) =>
        ms_op.result = Ok(ms_message.payload)

\* C18: validating a payload returns MsgTooBig exactly when it is a
\* SigningPackage whose message is longer than 2 * 1024 * 1024 bytes; a
\* message of exactly that length is not rejected, and no other payload is
\* rejected for its size.
C18_MsgTooBig ==
    ms_op.kind = "validate_payload" =>
        IF MessageTooLong(ms_message.payload)
        THEN ms_op.result = Err("MsgTooBig")
        ELSE ms_op.result.ok

\* A SigningPackage with two commitments and a message of exactly 2 MiB has
\* been accepted.
C18_Witness ==
    /\ ms_op.kind = "validate_payload"
    /\ ms_message.payload.kind = "SigningPackage"
    /\ ms_message.payload.signing_commitments.len = 2
    /\ ms_message.payload.message.len = 2097152
    /\ ms_op.result.ok

\* A SigningPackage with a message of 2 MiB + 1 bytes has been rejected.
C18_WitnessTooBig ==
    /\ ms_op.kind = "validate_payload"
    /\ ms_message.payload.kind = "SigningPackage"
    /\ ms_message.payload.message.len = 2097153
    /\ ms_op.result = Err("MsgTooBig")

(***************************************************************************)
(* Serialization of participant ids.                                       *)
(***************************************************************************)
\* The byte the encoding gives to a participant id.
ParticipantByte(p) ==
    IF p.role = "Dealer" THEN 254 ELSE IF p.role = "Aggregator" THEN 255 ELSE p.id

InIdRange(p) == p.role \in {"Dealer", "Aggregator"} \/ (p.role = "Signer" /\ p.id <= 253)

HasMalformedKey ==
    \E i \in DOMAIN b_items : ~VerificationKeyTryFrom(b_items[i].vk_bytes).ok

\* C20: when the vk_bytes of a queued item are not the canonical encoding
\* of a point that is not of small order, verify returns the error
\* InvalidSignature and does not panic.
C20_MalformedKeyIsAnError ==
    (b_phase = "verified" /\ HasMalformedKey) => b_result = Err("InvalidSignature")

\* What the code does: with a malformed key alone in the batch, or visited
\* before any signature that does not decode, verify panics.
C20_MalformedKeyPanics ==
    (b_phase = "verified" /\ HasMalformedKey) =>
        /\ b_result \in {Panic("unwrap on Err(MalformedVerificationKey)"),
                         Err("InvalidSignature")}
        /\ (~VerificationKeyTryFrom(b_order[1]).ok \/ Len(b_items) = 1) =>
              b_result = Panic("unwrap on Err(MalformedVerificationKey)")



(***************************************************************************)
(* Aggregation of signature shares that arrived from the network.          *)
(***************************************************************************)
CoListed == {co_package.signing_commitments[k].index :
               k \in DOMAIN co_package.signing_commitments}

\* The equation z_i * P = (D_i + rho_i * E_i) + lambda_i * c * vk_i of a
\* share of a listed participant of the key package.
ShareEquation(signing_share) ==
    LET commitments == co_package.signing_commitments
        bindings == Bindings(co_package)
        comm == commitments[CHOOSE j \in DOMAIN commitments :
                              /\ commitments[j].index = signing_share.index
                              /\ \A j2 \in 1..(j - 1) :
                                   commitments[j2].index # signing_share.index]
        R == gen_group_commitment(co_package, bindings).val
        c == gen_challenge(co_package, R, co_keygen.val.pubkeys.group_public)
        lambda_i == gen_lagrange_coeff(signing_share.index, co_package).val
    IN PMul(SpendAuthBasepoint, signing_share.signature)
         = PAdd(PAdd(comm.hiding, PMul(comm.binding, bindings[signing_share.index])),
                PMul(PMul(co_keygen.val.pubkeys.signer_pubkeys[signing_share.index], c),
                     lambda_i))

ShareKnown(signing_share) ==
    /\ signing_share.index \in DOMAIN co_keygen.val.pubkeys.signer_pubkeys
    /\ signing_share.index \in CoListed

\* The k-th share is the first one aggregate refuses, and it refuses it
\* because the equation fails.
FirstOffender(k) ==
    /\ k \in DOMAIN co_shares
    /\ \A j \in 1..(k - 1) : ShareKnown(co_shares[j]) /\ ShareEquation(co_shares[j])
    /\ ShareKnown(co_shares[k])
    /\ ~ShareEquation(co_shares[k])

\* C21: when aggregate rejects because the share of participant i fails
\* z_i * P = (D_i + rho_i * E_i) + lambda_i * c * vk_i, the error it
\* returns is InvalidSignatureShare and identifies the index i.
C21_IdentifiesParticipant ==
    co_phase = "aggregated" =>
      \A k \in DOMAIN co_shares :
        FirstOffender(k) =>
          /\ ~co_result.ok
          /\ FrostErrorOf(co_result.err) = "InvalidSignatureShare"
          /\ "index" \in DOMAIN co_result
          /\ co_result.index = co_shares[k].index

\* What the code does: the error is the same value whichever participant
\* offended.
C21_ErrorWithoutIndex ==
    co_phase = "aggregated" =>
      \A k \in DOMAIN co_shares :
        FirstOffender(k) => co_result = Err("Invalid signature share")

C21_TwoOffenders ==
    /\ co_phase = "aggregated"
    /\ Len(co_shares) = 2
    /\ FirstOffender(1)
    /\ ShareKnown(co_shares[2])
    /\ ~ShareEquation(co_shares[2])
    /\ co_shares[1].index # co_shares[2].index



CoThreshold == Len(co_keygen.val.sharepackages[1].share.commitment)

CoVerifies ==
    Verify("SpendAuth", co_keygen.val.pubkeys.group_public, co_package.message,
           co_result.val) = Ok("unit")

\* C27: aggregate never publishes an invalid signature: for every signing
\* package, every list of signature shares (fewer shares than commitments,
\* fewer than t participants, the same share twice) and every public key
\* package, if aggregate returns Ok(sig) then sig verifies under
\* pubkeys.group_public.
C27_PublishedVerifies ==
    (co_phase = "aggregated" /\ co_result.ok) => CoVerifies

\* What the code does: the signature verifies when the package lists at
\* least t distinct participants and the shares are one from each of them.
C27_FullSetVerifies ==
    (/\ co_phase = "aggregated"
     /\ co_result.ok
     /\ Cardinality(CoListed) = Len(co_package.signing_commitments)
     /\ Cardinality(CoListed) >= CoThreshold
     /\ Len(co_shares) = Cardinality(CoListed)
     /\ {co_shares[k].index : k \in DOMAIN co_shares} = CoListed)
    => CoVerifies

C27_FullSetWitness ==
    /\ co_phase = "aggregated"
    /\ co_result.ok
    /\ Cardinality(CoListed) = 2
    /\ Len(co_shares) = 2
    /\ co_shares[1].index # co_shares[2].index
    /\ CoVerifies

\* aggregate returns Ok on one share of a package of two commitments, and
\* the signature does not verify.
C27_MissingShare ==
    /\ co_phase = "aggregated"
    /\ co_result.ok
    /\ Cardinality(CoListed) = 2
    /\ CoThreshold = 2
    /\ Len(co_shares) = 1
    /\ ~CoVerifies

\* aggregate returns Ok on the same share twice, and the signature does
\* not verify.
C27_SameShareTwice ==
    /\ co_phase = "aggregated"
    /\ co_result.ok
    /\ Len(co_shares) = 2
    /\ co_shares[1] = co_shares[2]
    /\ ~CoVerifies

\* C30: aggregate returns an error value, and does not panic, when a
\* signature share carries an index that has no entry in
\* pubkeys.signer_pubkeys or no commitment in the signing package.
C30_UnknownIndexIsAnError ==
    (/\ co_phase = "aggregated"
     /\ \E k \in DOMAIN co_shares : ~ShareKnown(co_shares[k]))
    => (~co_result.ok /\ co_result.err # "panic")

\* What the code does: a first share of an index outside the key package
\* panics in the indexing of the map; a first share of a participant of
\* the key package that the signing package does not list is an error.
C30_UnknownSignerPanics ==
    (co_phase = "aggregated" /\ Len(co_shares) >= 1) =>
      /\ co_shares[1].index \notin DOMAIN co_keygen.val.pubkeys.signer_pubkeys
           => co_result = Panic("signer_pubkeys has no such key")
      /\ (/\ co_shares[1].index \in DOMAIN co_keygen.val.pubkeys.signer_pubkeys
          /\ co_shares[1].index \notin CoListed)
           => co_result = Err("No matching signing commitment for signer")

C30_PanicAfterValidShare ==
    /\ co_phase = "aggregated"
    /\ Len(co_shares) = 2
    /\ ShareKnown(co_shares[1])
    /\ ShareEquation(co_shares[1])
    /\ co_result = Panic("signer_pubkeys has no such key")



(***************************************************************************)
(* Packages a participant signs: order of the commitments, reuse of the    *)
(* nonces, an index listed twice.                                          *)
(***************************************************************************)
\* The commitments of a package as a bag: which commitments, how often.
CommitmentBag(signing_package) ==
    LET c == signing_package.signing_commitments
    IN [x \in {c[k] : k \in DOMAIN c} |-> Cardinality({k \in DOMAIN c : c[k] = x})]

\* Two packages with the same message and the same commitments, in any order.
SameSigningSet(p, q) ==
    /\ p.message = q.message
    /\ CommitmentBag(p) = CommitmentBag(q)

PackageListed(signing_package) ==
    {signing_package.signing_commitments[k].index :
       k \in DOMAIN signing_package.signing_commitments}

\* C22: the binding factors, the group commitment and every signature
\* share depend only on the set of commitments of the package, not on
\* their order: two packages with the same message and the same
\* commitments in different orders give the same rho_i for every listed
\* participant, the same R and the same share from sign.
C22_OrderIndependent ==
    \A a, b \in DOMAIN pt_calls :
      SameSigningSet(pt_calls[a].signing_package, pt_calls[b].signing_package) =>
        /\ Bindings(pt_calls[a].signing_package) = Bindings(pt_calls[b].signing_package)
        /\ gen_group_commitment(pt_calls[a].signing_package,
                                Bindings(pt_calls[a].signing_package))
             = gen_group_commitment(pt_calls[b].signing_package,
                                    Bindings(pt_calls[b].signing_package))
        /\ pt_calls[a].result = pt_calls[b].result

\* What the code does: the Lagrange coefficient is the same in every order
\* of the commitments; the binding factor is a hash of the commitments in
\* the order of the package.
C22_LagrangeOrderIndependent ==
    \A a, b \in DOMAIN pt_calls :
      SameSigningSet(pt_calls[a].signing_package, pt_calls[b].signing_package) =>
        gen_lagrange_coeff(pt_index, pt_calls[a].signing_package)
          = gen_lagrange_coeff(pt_index, pt_calls[b].signing_package)

\* The same two commitments in the two orders give two binding factors and
\* two signature shares.
C22_OrderChangesShare ==
    /\ Len(pt_calls) = 2
    /\ SameSigningSet(pt_calls[1].signing_package, pt_calls[2].signing_package)
    /\ Cardinality(PackageListed(pt_calls[1].signing_package)) = 2
    /\ pt_calls[1].signing_package # pt_calls[2].signing_package
    /\ pt_calls[1].result.ok
    /\ pt_calls[2].result.ok
    /\ gen_rho_i(pt_index, pt_calls[1].signing_package)
         # gen_rho_i(pt_index, pt_calls[2].signing_package)
    /\ pt_calls[1].result # pt_calls[2].result

\* C23: signing nonces are single-use: in no execution is the same
\* SigningNonces value accepted by two calls of sign.
C23_NoncesSingleUse ==
    \A a, b \in DOMAIN pt_calls :
      (/\ a # b
       /\ pt_calls[a].result.ok
       /\ pt_calls[b].result.ok)
      => pt_calls[a].participant_nonces # pt_calls[b].participant_nonces

\* What the code does: sign never refuses nonces it was given before; it
\* returns a share whenever the package lists the participant.
C23_SignAcceptsAgain ==
    \A a \in DOMAIN pt_calls :
      pt_calls[a].result.ok <=> pt_index \in PackageListed(pt_calls[a].signing_package)

\* One pair of nonces signed two messages: the two shares give the
\* participant's secret share away.
C23_TwoMessagesOneNonce ==
    /\ Len(pt_calls) = 2
    /\ pt_calls[1].result.ok
    /\ pt_calls[2].result.ok
    /\ pt_calls[1].participant_nonces = pt_calls[2].participant_nonces
    /\ pt_calls[1].signing_package.message # pt_calls[2].signing_package.message
    /\ pt_calls[1].signing_package.signing_commitments
         = pt_calls[2].signing_package.signing_commitments
    /\ pt_calls[1].result # pt_calls[2].result

HasDuplicateIndex(signing_package) ==
    Cardinality(PackageListed(signing_package)) < Len(signing_package.signing_commitments)

\* C28: a signing package that lists the same participant index in two
\* commitments is rejected with DuplicateShares: gen_lagrange_coeff, and
\* therefore sign, return that error for every such package.
C28_DuplicateIndexRejected ==
    \A a \in DOMAIN pt_calls :
      HasDuplicateIndex(pt_calls[a].signing_package) =>
        /\ gen_lagrange_coeff(pt_index, pt_calls[a].signing_package)
             = Err("Duplicate shares provided")
        /\ ~pt_calls[a].result.ok
        /\ FrostErrorOf(pt_calls[a].result.err) = "DuplicateShares"

\* What the code does: gen_lagrange_coeff returns a coefficient for every
\* package, an index listed twice or not, and sign fails only when the
\* package does not list the signer.
C28_DuplicatesPass ==
    \A a \in DOMAIN pt_calls :
      /\ gen_lagrange_coeff(pt_index, pt_calls[a].signing_package).ok
      /\ ~pt_calls[a].result.ok => pt_calls[a].result = Err("No matching binding!")

C28_SignedDuplicate ==
    /\ Len(pt_calls) = 1
    /\ HasDuplicateIndex(pt_calls[1].signing_package)
    /\ pt_calls[1].result.ok



(***************************************************************************)
(* KeyPackage::try_from.                                                   *)
(***************************************************************************)
RECURSIVE SPow(_, _)
SPow(x, k) == IF k = 0 THEN 1 ELSE SMul(x, SPow(x, k - 1))

\* The sum of index^k * C_k over the commitments C_0, C_1, ... from the
\* j-th entry of the list on.
RECURSIVE CommitmentSum(_, _, _)
CommitmentSum(commitment, index, j) ==
    IF j > Len(commitment) THEN Identity
    ELSE PAdd(PMul(commitment[j], SPow(ScalarFromU64(index), j - 1)),
              CommitmentSum(commitment, index, j + 1))

ShareEquationHolds(share) ==
    PMul(SpendAuthBasepoint, share.value)
      = CommitmentSum(share.commitment, share.receiver_index, 1)

\* C29: KeyPackage::try_from(SharePackage) succeeds exactly when the share
\* satisfies value * P = sum over k of index^k * C_k; when it does not,
\* the error InvalidShare is returned and no KeyPackage; when it does, the
\* KeyPackage carries the package's index, share value, public key and
\* group public key unchanged.
C29_KeyPackageTryFrom ==
    sh_op.kind = "try_from" =>
      /\ sh_op.result.ok <=> ShareEquationHolds(sh_op.arg.share)
      /\ ~sh_op.result.ok =>
           /\ FrostErrorOf(sh_op.result.err) = "InvalidShare"
           /\ "val" \notin DOMAIN sh_op.result
      /\ sh_op.result.ok =>
           sh_op.result.val = [index |-> sh_op.arg.index,
                               secret_share |-> sh_op.arg.share.value,
                               public |-> sh_op.arg.public,
                               group_public |-> sh_op.arg.group_public]

C29_Witness ==
    /\ sh_op.kind = "try_from"
    /\ sh_threshold >= 2
    /\ sh_op.arg.share.receiver_index >= 2
    /\ sh_op.arg.share.value # 0
    /\ sh_op.arg.share.commitment[2] # Identity
    /\ sh_op.result.ok
    /\ sh_op.result.val.secret_share = sh_op.arg.share.value

C29_WitnessInvalid ==
    /\ sh_op.kind = "try_from"
    /\ sh_threshold >= 2
    /\ ~ShareEquationHolds(sh_op.arg.share)
    /\ sh_op.result = Err("Share is invalid.")



(***************************************************************************)
(* The three validators of a message.                                      *)
(***************************************************************************)
\* A message with the same roles and payload type, of version 0 and with
\* nothing else in the payload.
RolesOnly(message) ==
    [header |-> [message.header EXCEPT !.version = BASIC_FROST_SERIALIZATION],
     payload |-> [kind |-> message.payload.kind]]

\* C26: validating a whole Message enforces the header rules too: it
\* rejects every message whose header version is not 0 or whose sender
\* equals its receiver, and every message whose payload fails payload
\* validation.
C26_MessageEnforcesHeader ==
    (/\ ms_phase = "done"
     /\ ms_op.kind = "validate_message"
     /\ \/ ms_message.header.version # BASIC_FROST_SERIALIZATION
        \/ ms_message.header.sender = ms_message.header.receiver
        \/ ~PayloadValidate(ms_message.payload).ok)
    => ~ms_op.result.ok

\* C26, amended: validating a whole Message looks at the payload type and
\* the roles of sender and receiver only; a version other than 0 or a
\* sender equal to the receiver is rejected by the validation of the
\* header, and a payload that fails payload validation by the validation
\* of the payload.
C26_ValidatorsSplit ==
    ms_phase = "done" =>
      /\ ms_op.kind = "validate_message" =>
           /\ ms_op.result.ok <=> MessageValidate(RolesOnly(ms_message)).ok
           /\ ms_op.result.ok => ms_op.result.val = ms_message
      /\ (/\ ms_op.kind = "validate_header"
          /\ \/ ms_message.header.version # BASIC_FROST_SERIALIZATION
             \/ ms_message.header.sender = ms_message.header.receiver)
         => ~ms_op.result.ok
      /\ (ms_op.kind = "validate_payload" /\ MessageTooLong(ms_message.payload))
         => ~ms_op.result.ok

C26_Witness ==
    /\ ms_phase = "done"
    /\ ms_op.kind = "validate_message"
    /\ ms_message.header.version # BASIC_FROST_SERIALIZATION
    /\ MessageTooLong(ms_message.payload)
    /\ ms_op.result = Ok(ms_message)

C26_SameSenderAndReceiverPasses ==
    /\ ms_phase = "done"
    /\ ms_op.kind = "validate_message"
    /\ ms_message.header.version = BASIC_FROST_SERIALIZATION
    /\ ms_message.header.sender = Dealer
    /\ ms_message.header.receiver = Dealer
    /\ ms_message.payload.kind = "SharePackage"
    /\ ms_op.result = Ok(ms_message)



(***************************************************************************)
(* The end-to-end run.                                                     *)
(***************************************************************************)
RequestServed(k) ==
    /\ rt_results[k].state = "sent"
    /\ rt_results[k].value.ok
    /\ Verify("SpendAuth", rt_chan.pubkeys[1], RequestMessage(k),
              rt_results[k].value.val).ok

\* C24: in the end-to-end run (one aggregator task, n party tasks,
\* threshold t) every signing request of the run is sent, receives a result
\* and stays answered, the requests are served one after the other (a
\* request is sent only when the ones before it are served), and each
\* result is Ok(sig) with sig verifying under the group public key for the
\* requested message.
C24_RequestsServed ==
    /\ \A k \in 1..NumRequests : <>[]RequestServed(k)
    /\ [](\A k \in 1..NumRequests :
            rt_results[k].state # "unsent" => \A j \in 1..(k - 1) : RequestServed(j))

\* What the code does: no signing request is ever sent; the party tasks
\* panic in keygen::begin_keygen and the test waits for their public keys.
C24_NoRequestSent ==
    /\ \A k \in 1..NumRequests : rt_results[k].state = "unsent"
    /\ rt_chan.pubkeys = <<>>
    /\ rt_main.pc \in {"setup", "spawned", "collect_pubkeys"}

AllTasksDone ==
    /\ rt_agg.pc = "done"
    /\ rt_party # <<>>
    /\ \A p \in DOMAIN rt_party : rt_party[p] = "done"

\* C25: in the end-to-end run the only request sender is dropped, and once
\* it is, the aggregator task and every party task (participating or not)
\* eventually terminate without panicking; no task stays blocked on a
\* channel.
C25_CleanShutdown ==
    /\ <>(~rt_chan.request_open)
    /\ (~rt_chan.request_open) ~> AllTasksDone
    /\ [](\A p \in DOMAIN rt_party : rt_party[p] # "panicked")

\* What the code does: every party task panics, and the aggregator task
\* and the test stay blocked, on the requests and on the public keys.
C25_PartiesPanicOthersBlock ==
    <>[](/\ rt_party # <<>>
         /\ \A p \in DOMAIN rt_party : rt_party[p] = "panicked"
         /\ rt_agg.pc = "recv_request"
         /\ rt_main.pc = "collect_pubkeys"
         /\ rt_chan.request_open)

C25_Stuck ==
    /\ rt_cfg.num_shares = MaxSigners
    /\ rt_cfg.threshold >= 2
    /\ \A p \in DOMAIN rt_party : rt_party[p] = "panicked"
    /\ rt_agg.pc = "recv_request"
    /\ rt_main.pc = "collect_pubkeys"



(***************************************************************************)
(* What keygen_with_dealer returns.                                        *)
(***************************************************************************)
\* C31: for every valid (n, t), keygen_with_dealer returns exactly n share
\* packages with indices 1, 2, ..., n in that order (never index 0), all
\* carrying the same commitment sequence of exactly t points whose first
\* point is the group public key point, and a public key package with
\* exactly one entry per index i, equal to value_i * P.
C31_KeygenPackages ==
    (f_phase \notin {"start", "failed"}) =>
      LET sharepackages == f_keygen.val.sharepackages
          pubkeys == f_keygen.val.pubkeys
      IN /\ f_keygen.ok
         /\ DOMAIN sharepackages = 1..f_numsigners
         /\ \A i \in 1..f_numsigners :
              /\ sharepackages[i].index = i
              /\ sharepackages[i].share.receiver_index = i
              /\ sharepackages[i].share.commitment = sharepackages[1].share.commitment
              /\ Len(sharepackages[i].share.commitment) = f_threshold
              /\ sharepackages[i].share.commitment[1] = pubkeys.group_public.point
              /\ sharepackages[i].group_public = pubkeys.group_public
              /\ sharepackages[i].public
                   = PMul(SpendAuthBasepoint, sharepackages[i].share.value)
         /\ DOMAIN pubkeys.signer_pubkeys = 1..f_numsigners
         /\ \A i \in 1..f_numsigners :
              pubkeys.signer_pubkeys[i]
                = PMul(SpendAuthBasepoint, sharepackages[i].share.value)

C31_Witness ==
    /\ f_phase = "keyed"
    /\ f_numsigners = MaxSigners
    /\ f_threshold = 2
    /\ f_keygen.val.sharepackages[1].share.value
         # f_keygen.val.sharepackages[2].share.value
    /\ f_keygen.val.sharepackages[MaxSigners].index = MaxSigners
    /\ f_keygen.val.pubkeys.signer_pubkeys[1] # f_keygen.val.pubkeys.signer_pubkeys[2]
    /\ f_keygen.val.pubkeys.group_public.point # Identity



(***************************************************************************)
(* The contents of a Verifier after a sequence of queue calls.             *)
(***************************************************************************)
\* The sum of the lengths of the signature lists of the keys `keys`.
RECURSIVE SumOfLengths(_, _)
SumOfLengths(signatures, keys) ==
    IF keys = {} THEN 0
    ELSE LET key == CHOOSE k \in keys : TRUE
         IN Len(signatures[key]) + SumOfLengths(signatures, keys \ {key})

\* The (challenge, signature) pair queue stores for a queued tuple.
QueuedPair(item) ==
    [c |-> Challenge(item.sig.r_bytes, item.vk_bytes, item.msg), sig |-> item.sig]

\* C32: after any sequence of queue calls on a Verifier, batch_size equals
\* the number of queue calls and the sum of the lengths of the per-key
\* signature lists; every queued (challenge, signature) pair is stored
\* under exactly its own vk_bytes, in the order of the calls, and no item
\* is dropped or merged.
C32_QueueKeepsEveryItem ==
    (b_phase \in {"open", "verified"}) =>
      LET signatures == b_verifier.signatures
      IN /\ b_verifier.batch_size = Len(b_items)
         /\ b_verifier.batch_size = SumOfLengths(signatures, DOMAIN signatures)
         /\ DOMAIN signatures = {b_items[i].vk_bytes : i \in DOMAIN b_items}
         /\ \A key \in DOMAIN signatures :
              LET indices == IndicesOf(b_items, key, 1)
              IN signatures[key]
                   = [k \in DOMAIN indices |-> QueuedPair(b_items[indices[k]])]

\* Two tuples queued under one key and both kept.
C32_Witness ==
    /\ b_phase = "open"
    /\ Len(b_items) = 2
    /\ b_items[1].vk_bytes = b_items[2].vk_bytes
    /\ b_items[1].sig # b_items[2].sig
    /\ Len(b_verifier.signatures[b_items[1].vk_bytes]) = 2
    /\ b_verifier.batch_size = 2

\* Two tuples queued under two keys.
C32_WitnessTwoKeys ==
    /\ b_phase = "open"
    /\ Len(b_items) = 2
    /\ b_items[1].vk_bytes # b_items[2].vk_bytes
    /\ Cardinality(DOMAIN b_verifier.signatures) = 2



(***************************************************************************)
(* Batch verification of signatures that do not decode.                    *)
(***************************************************************************)
SigDecodes(sig) ==
    PointFromBytes(sig.r_bytes).some /\ ScalarFromBytes(sig.s_bytes).some

HasUndecodableSig == \E i \in DOMAIN b_items : ~SigDecodes(b_items[i].sig)

\* C33: verify returns Err(InvalidSignature) whenever a queued signature
\* has an R half that does not decode to a point or an s half that is not a
\* canonical scalar, whatever the other items of the batch are.
C33_UndecodableSigIsInvalid ==
    (b_phase = "verified" /\ HasUndecodableSig) => b_result = Err("InvalidSignature")

\* What the code does: with every key of the batch well formed the error is
\* InvalidSignature; a malformed key visited before the signature that does
\* not decode makes verify panic.
C33_InvalidUnlessKeyPanics ==
    (b_phase = "verified" /\ HasUndecodableSig) =>
        /\ ~HasMalformedKey => b_result = Err("InvalidSignature")
        /\ b_result \in {Err("InvalidSignature"),
                         Panic("unwrap on Err(MalformedVerificationKey)")}
        /\ b_result # Err("InvalidSignature") =>
             \E k \in DOMAIN b_order : ~VerificationKeyTryFrom(b_order[k]).ok

\* An s half that is not canonical under a well-formed key, alone or with
\* a valid item: InvalidSignature.
C33_WitnessScalar ==
    /\ b_phase = "verified"
    /\ Len(b_items) = 2
    /\ ~HasMalformedKey
    /\ \E i \in DOMAIN b_items :
         /\ ~ScalarFromBytes(b_items[i].sig.s_bytes).some
         /\ PointFromBytes(b_items[i].sig.r_bytes).some
    /\ \E i \in DOMAIN b_items : ItemValid(b_T, b_items[i])
    /\ b_result = Err("InvalidSignature")

\* An R half that does not decode, under a well-formed key.
C33_WitnessPoint ==
    /\ b_phase = "verified"
    /\ ~HasMalformedKey
    /\ \E i \in DOMAIN b_items : ~PointFromBytes(b_items[i].sig.r_bytes).some
    /\ b_result = Err("InvalidSignature")

\* A signature that does not decode, in a batch that panics.
C33_WitnessPanic ==
    /\ b_phase = "verified"
    /\ HasUndecodableSig
    /\ b_result = Panic("unwrap on Err(MalformedVerificationKey)")



(***************************************************************************)
(* The aggregator's session states.                                        *)
(***************************************************************************)
\* The calls of recv that took the state value i.
RecvCallsOn(i) == {k \in DOMAIN se_calls : se_calls[k].state = i}

\* C34: the aggregator session moves only forward and each state is used
\* once: a Signature comes only from AwaitingResponseShares::recv, an
\* AwaitingResponseShares only from a successful
\* AwaitingCommitmentShares::recv, and an AwaitingCommitmentShares only from
\* begin_sign; each recv consumes its state, so no state accepts a second
\* recv, and a failed recv leaves no usable session.
C34_SessionLinear ==
    /\ \A k \in DOMAIN se_signatures :
         se_signatures[k].origin = "AwaitingResponseShares::recv"
    /\ \A i \in DOMAIN se_states :
         /\ se_states[i].kind = "AwaitingResponseShares" =>
              se_states[i].origin = "AwaitingCommitmentShares::recv"
         /\ se_states[i].kind = "AwaitingCommitmentShares" =>
              se_states[i].origin = "begin_sign"
         /\ Cardinality(RecvCallsOn(i)) <= 1
         /\ (\E k \in RecvCallsOn(i) : ~se_calls[k].result.ok) => se_states[i].moved

\* The part of C34 the signatures of the functions give: recv takes its
\* state by value, so a state is the argument of at most one recv and is
\* gone after it, and a signature comes from no other place.
C34_RecvConsumes ==
    /\ \A k \in DOMAIN se_signatures :
         se_signatures[k].origin = "AwaitingResponseShares::recv"
    /\ \A i \in DOMAIN se_states :
         /\ Cardinality(RecvCallsOn(i)) <= 1
         /\ RecvCallsOn(i) # {} <=> se_states[i].moved

\* What the code does: every function of the session panics, so no state is
\* ever returned by begin_sign or by a recv and no signature is produced;
\* the only state values are those of struct expressions.
C34_NothingMovesForward ==
    /\ se_signatures = <<>>
    /\ \A k \in DOMAIN se_calls : se_calls[k].result = Panic("not implemented")
    /\ \A i \in DOMAIN se_states : se_states[i].origin = "struct expression"

\* An AwaitingResponseShares that no recv returned, consumed by a recv that
\* panicked.
C34_WitnessState ==
    /\ Len(se_calls) = MaxCalls
    /\ \E i \in DOMAIN se_states :
         /\ se_states[i].kind = "AwaitingResponseShares"
         /\ se_states[i].moved
    /\ \E i \in DOMAIN se_states :
         /\ se_states[i].kind = "AwaitingCommitmentShares"
         /\ se_states[i].moved
    /\ \A k \in DOMAIN se_calls : ~se_calls[k].result.ok



(***************************************************************************)
(* The participant ids that deserialization produces.                      *)
(***************************************************************************)
\* C35: every ParticipantId produced by deserialization is valid: for every
\* unsigned integer handed to the visitor, values above 255 included, the
\* result is Dealer, Aggregator, or Signer(k) with
\* k <= MAX_SIGNER_PARTICIPANT_ID, or an error; it is never a Signer with id
\* 254 or 255 and never the low byte of a larger value.
C35_DeserializedIdValid ==
    (ms_phase = "done" /\ ms_op.kind = "visit_u64") =>
      LET value == ms_op.arg[1]
          r == ms_op.result
      IN r.ok =>
           \/ r.val = Dealer /\ value = DEALER_PARTICIPANT_ID
           \/ r.val = Aggregator /\ value = AGGREGATOR_PARTICIPANT_ID
           \/ /\ r.val.role = "Signer"
              /\ r.val.id <= MAX_SIGNER_PARTICIPANT_ID
              /\ r.val.id = value

\* What the code does: visit_u64 never fails; 254 and 255 are the dealer and
\* the aggregator, every other value is Signer of its low byte, so a value
\* of at most 255 gives a valid id and a larger one a wrapped id.
C35_LowByteOfValue ==
    (ms_phase = "done" /\ ms_op.kind = "visit_u64") =>
      LET value == ms_op.arg[1]
          r == ms_op.result
      IN /\ r.ok
         /\ value = DEALER_PARTICIPANT_ID => r.val = Dealer
         /\ value = AGGREGATOR_PARTICIPANT_ID => r.val = Aggregator
         /\ value \notin {DEALER_PARTICIPANT_ID, AGGREGATOR_PARTICIPANT_ID} =>
              r.val = Signer(value % (U8Max + 1))
         /\ value <= U8Max =>
              (r.val.role = "Signer" => r.val.id = value /\ value <= MAX_SIGNER_PARTICIPANT_ID)

\* 510 is deserialized as Signer(254).
C35_WitnessSigner254 ==
    /\ ms_phase = "done"
    /\ ms_op.kind = "visit_u64"
    /\ ms_op.arg[1] = 2 * U8Max
    /\ ms_op.result = Ok(Signer(MAX_SIGNERS))

\* 256 is deserialized as Signer(0).
C35_WitnessWrapped ==
    /\ ms_phase = "done"
    /\ ms_op.kind = "visit_u64"
    /\ ms_op.arg[1] = U8Max + 1
    /\ ms_op.result = Ok(Signer(0))

\* A value of the u8 range gives a valid signer id.
C35_WitnessInRange ==
    /\ ms_phase = "done"
    /\ ms_op.kind = "visit_u64"
    /\ ms_op.arg[1] = MAX_SIGNER_PARTICIPANT_ID
    /\ ms_op.result = Ok(Signer(MAX_SIGNER_PARTICIPANT_ID))



(***************************************************************************)
(* The width-5 non-adjacent form.                                          *)
(***************************************************************************)
\* Bit i of the little-endian integer bytes.
BitOfBytes(bytes, i) == ByteBit(bytes[(i \div 8) + 1], i % 8)

\* The digits lo..hi of naf added, with the carry acc.carry coming from
\* below, bit by bit: ok stays TRUE while each bit of the sum is the bit of
\* bytes at that place.
RECURSIVE DigitsFold(_, _, _, _, _)
DigitsFold(naf, bytes, lo, hi, acc) ==
    IF lo = hi
    THEN LET t == naf[lo + 1] + acc.carry + 64
             bit == t % 2
         IN [ok |-> acc.ok /\ bit = BitOfBytes(bytes, lo),
             carry |-> ((t - bit) \div 2) - 32]
    ELSE LET mid == (lo + hi) \div 2
             lower == DigitsFold(naf, bytes, lo, mid, acc)
         IN IF lower.ok \in BOOLEAN THEN DigitsFold(naf, bytes, mid + 1, hi, lower)
            ELSE lower

\* The sum of naf[i] * 2^i over the 256 digits is the integer bytes.
DigitsSumTo(naf, bytes) ==
    DigitsFold(naf, bytes, 0, NafLen - 1, [ok |-> TRUE, carry |-> 0])
      = [ok |-> TRUE, carry |-> 0]

\* n turns of the loop of non_adjacent_form from st, with the positions at
\* which a window was read.
RECURSIVE NafTrace(_, _, _, _)
NafTrace(tr, bytes, w, n) ==
    IF n = 1
    THEN [st |-> NafStep(tr.st, bytes, w),
          seen |-> IF tr.st.pos >= NafLen THEN tr.seen ELSE tr.seen \cup {tr.st.pos}]
    ELSE LET half == NafTrace(tr, bytes, w, n \div 2)
         IN IF half.st.pos >= 0 THEN NafTrace(half, bytes, w, n - (n \div 2)) ELSE half

\* The positions at which the loop of non_adjacent_form reads a window.
NafPositions(bytes, w) ==
    NafTrace([st |-> [pos |-> 0, carry |-> 0, naf |-> [i \in 1..NafLen |-> 0]],
              seen |-> {}], bytes, w, NafLen).seen

\* The indices of x_u64 read for the window at pos.
WordsRead(pos, w) ==
    IF pos % 64 < 64 - w THEN {pos \div 64} ELSE {pos \div 64, 1 + (pos \div 64)}

\* C36: for every canonical scalar x, non_adjacent_form(5) returns 256
\* digits whose sum of d_i * 2^i is x, every non-zero digit odd and in
\* [-15, 15], any two non-zero digits at least 5 positions apart; the
\* computation reads no word outside the 5 words of x_u64.
C36_NafOfCanonicalScalar ==
    (nf_op = "non_adjacent_form") =>
      LET naf == nf_output
          positions == NafPositions(nf_input, 5)
      IN /\ DOMAIN naf = 1..NafLen
         /\ DigitsSumTo(naf, nf_input)
         /\ \A i \in 1..NafLen :
              naf[i] # 0 =>
                /\ naf[i] \in (0 - 15)..15
                /\ (naf[i] + 16) % 2 = 1
                /\ \A j \in (i + 1)..NafLen : j - i < 5 => naf[j] = 0
         /\ \A pos \in positions : WordsRead(pos, 5) \subseteq 0..4

\* The largest canonical scalar, with negative digits and a window that
\* spans two words.
C36_Witness ==
    /\ nf_op = "non_adjacent_form"
    /\ nf_input = [JubjubOrderBytes EXCEPT ![1] = @ - 1]
    /\ \E i \in 1..NafLen : nf_output[i] < 0
    /\ \E i \in 1..NafLen : nf_output[i] > 0
    /\ \E pos \in NafPositions(nf_input, 5) :
         WordsRead(pos, 5) = {0, 1}

\* A scalar whose window at the end of the last word reads the fifth word.
C36_WitnessFifthWord ==
    /\ nf_op = "non_adjacent_form"
    /\ \E pos \in NafPositions(nf_input, 5) :
         WordsRead(pos, 5) = {3, 4}
    /\ \E i \in 240..NafLen : nf_output[i] # 0



(***************************************************************************)
(* Multiscalar multiplication.                                             *)
(***************************************************************************)
\* The little-endian integer bytes[1..i], modulo m.
RECURSIVE BytesMod(_, _, _)
BytesMod(bytes, i, m) ==
    IF i > Len(bytes) THEN 0
    ELSE (bytes[i] + 256 * BytesMod(bytes, i + 1, m)) % m

\* c_k * P_k + ... + c_n * P_n, each product computed from the integer c_k.
RECURSIVE ReferenceSum(_, _, _)
ReferenceSum(scalar_bytes, points, k) ==
    IF k > Len(points) THEN Identity
    ELSE PAdd(PMul(points[k].val, BytesMod(scalar_bytes[k], 1, GroupOrder)),
              ReferenceSum(scalar_bytes, points, k + 1))

\* C37: optional_multiscalar_mul returns None if any input point is None,
\* and otherwise Some(Q) with Q the reference sum c_1 * P_1 + ... + c_n * P_n,
\* for every list of scalars and equally long list of points; the lookup
\* table built for a point A holds A, 3A, ..., 15A and select(x) returns
\* x * A for every odd x below 16.
C37_MultiscalarMul ==
    /\ (nf_op = "optional_multiscalar_mul") =>
         LET points == nf_input.points
         IN IF \E k \in DOMAIN points : ~points[k].some
            THEN nf_output = Nothing
            ELSE nf_output = Some(ReferenceSum(nf_input.scalars, points, 1))
    /\ (nf_op = "LookupTable5::from") =>
         /\ nf_output = [i \in 1..8 |-> PMul(nf_input, 2 * i - 1)]
         /\ \A x \in 1..15 : x % 2 = 1 => select(nf_output, x) = PMul(nf_input, x)

\* Two wide scalars with negative digits and two points, one of them with a
\* component of small order: a sum that is not the identity.
C37_Witness ==
    /\ nf_op = "optional_multiscalar_mul"
    /\ Len(nf_input.points) = 2
    /\ nf_input.scalars = <<WideBytes(31, 255, 255, 13),
                            [JubjubOrderBytes EXCEPT ![1] = @ - 1]>>
    /\ nf_input.points = <<Some(1), Some(SpendAuthBasepoint)>>
    /\ nf_output.some
    /\ nf_output.val # Identity

\* A list with a missing point.
C37_WitnessNone ==
    /\ nf_op = "optional_multiscalar_mul"
    /\ nf_input.points = <<Some(SpendAuthBasepoint), Nothing>>
    /\ nf_output = Nothing

\* The table of a point of full order.
C37_WitnessTable ==
    /\ nf_op = "LookupTable5::from"
    /\ nf_input = 1
    /\ nf_output = <<1, 3, 5, 7, 9, 11, 13, 15>>


====
